---------------------------- MODULE Spec2Model ----------------------------
(***************************************************************************)
(* Model of the Open Build Service mock registry                           *)
(* (open-build-service-mock): projects, packages, content stores,          *)
(* source and metadata revisions, the build result matrix, and the source  *)
(* and build request handlers.                                             *)
(*                                                                         *)
(* Timestamps (SystemTime), user names and comments are carried by the     *)
(* code but never read back by any decision; they are left out.            *)
(***************************************************************************)
EXTENDS Integers, Sequences, FiniteSets, TLC

\* ------------------------------------------------------------------ bounds
MaxRevs == 3         \* source revisions per package explored
MaxFileList == 2     \* entries in one commitfilelist body
MaxLog == 3          \* bytes in a build log
MaxPolls == 3        \* polls of one monitor run explored

\* ------------------------------------------------------------ input domains
ProjectNames == {"prj"}
PackageNames == {"pkg", "brn"}
META_PATH == "_meta"
Paths == {META_PATH, "a", "b"}
Bodies == {<<"x">>, <<"y", "y">>}
Srcmd5s == {"s1", "s2"}
Versions == {"v1", "v2"}
RepoNames == {"r1", "r2"}
Arches == {"x86", "arm"}
Threads == {"t1", "t2", "t3"}
ConfiguredAuth == <<"user", "pass">>
Credentials == {ConfiguredAuth, <<"user", "wrong">>}
ZERO_REV_SRCMD5 == "d41d8cd98f00b204e9800998ecf8427e"

\* ------------------------------------------------------------------ options
None == << >>
Some(x) == <<x>>
IsSome(o) == o # None
Unwrap(o) == o[1]

EmptyMap == << >>
Put(f, k, v) == [x \in DOMAIN f \cup {k} |-> IF x = k THEN v ELSE f[x]]

\* ------------------------------------------------------------------- state
VARIABLES
    projects,    \* ProjectMap: project name -> MockProject [packages, repos]
    poisoned,    \* the registry RwLock was poisoned by a panicking writer
    resp,        \* the last call: operation, request and response
    handshake,   \* progress of the commit handshake a client is following
    reader,      \* a client reading a build log chunk by chunk
    monitor,     \* the status monitor of obsctl
    lock,        \* who holds the registry RwLock: [writer, readers]
    threads      \* the handler calls the server is running, by thread

vars == <<projects, poisoned, resp, handshake, reader, monitor, lock, threads>>

\* ---------------------------------------------------------- MockSourceFile
\* Md5::digest of the contents, hex encoded: a digest of the bytes only.
Md5(contents) == <<"md5">> \o contents

\* MockSourceFile::new_metadata: the rendered <package> element.
new_metadata(project, package) ==
    [path |-> META_PATH, contents |-> <<"package", project, package>>]

MockSourceFileKey(path, md5) == [path |-> path, md5 |-> md5]

\* mutant: the key's digest is taken of the path instead of the contents
into_key_and_contents_of_path(file) ==
    [key |-> MockSourceFileKey(file.path, Md5(<<file.path>>)),
     contents |-> file.contents]

into_key_and_contents(file) ==
    [key |-> MockSourceFileKey(file.path, Md5(file.contents)),
     contents |-> file.contents]

Digests == {Md5(b) : b \in Bodies}

\* ------------------------------------------------------------- MockPackage
MockRevision(vrev, srcmd5, version, entries, linkinfo) ==
    [vrev |-> vrev, srcmd5 |-> srcmd5, version |-> version,
     entries |-> entries, linkinfo |-> linkinfo]

\* mutant: the metadata revision is recorded, its file is not stored
new_without_metadata_file(project_name, package_name, initial_meta_srcmd5) ==
    LET kc == into_key_and_contents(new_metadata(project_name, package_name))
    IN [files |-> EmptyMap,
        revisions |-> << >>,
        meta_revisions |->
            << MockRevision(None, initial_meta_srcmd5, None,
                            Put(EmptyMap, META_PATH, kc.key.md5), << >>) >>,
        latest_vrevs |-> EmptyMap]

new_with_metadata(project_name, package_name, initial_meta_srcmd5) ==
    LET kc == into_key_and_contents(new_metadata(project_name, package_name))
    IN [files |-> Put(EmptyMap, kc.key, kc.contents),
        revisions |-> << >>,
        meta_revisions |->
            << MockRevision(None, initial_meta_srcmd5, None,
                            Put(EmptyMap, META_PATH, kc.key.md5), << >>) >>,
        latest_vrevs |-> EmptyMap]

\* mutant: one counter for the whole package, whatever the version
bump_vrev_shared(latest_vrevs, version) ==
    LET top == IF DOMAIN latest_vrevs = {} THEN 0
               ELSE CHOOSE n \in {latest_vrevs[v] : v \in DOMAIN latest_vrevs} :
                        \A v \in DOMAIN latest_vrevs : latest_vrevs[v] <= n
    IN Put(latest_vrevs, version, top + 1)

\* latest_vrevs.entry(version).or_default(); *vrev += 1
bump_vrev(latest_vrevs, version) ==
    Put(latest_vrevs, version,
        IF version \in DOMAIN latest_vrevs THEN latest_vrevs[version] + 1
        ELSE 1)

\* mutant: the assertion only looks at the paths, not at the digests
add_revision_assert_paths_only(package, entries) ==
    \A path \in DOMAIN entries :
        \E key \in DOMAIN package.files : key.path = path

\* the assert! loop of add_revision
add_revision_assert(package, entries) ==
    \A path \in DOMAIN entries :
        MockSourceFileKey(path, entries[path]) \in DOMAIN package.files

\* mutant: a new revision starts without LinkInfo
add_revision_without_linkinfo(package, srcmd5, version, entries) ==
    LET vrevs == bump_vrev(package.latest_vrevs, version)
    IN [package EXCEPT
          !.latest_vrevs = vrevs,
          !.revisions = Append(@, MockRevision(Some(vrevs[version]), srcmd5,
                                               version, entries, << >>))]

\* add_revision when the assertion holds
add_revision(package, srcmd5, version, entries) ==
    LET vrevs == bump_vrev(package.latest_vrevs, version)
        linkinfo == IF Len(package.revisions) = 0 THEN << >>
                    ELSE package.revisions[Len(package.revisions)].linkinfo
    IN [package EXCEPT
          !.latest_vrevs = vrevs,
          !.revisions = Append(@, MockRevision(Some(vrevs[version]), srcmd5,
                                               version, entries, linkinfo))]

\* add_revision when the assertion fails: the counter was already bumped
add_revision_panic(package, version) ==
    [package EXCEPT !.latest_vrevs = bump_vrev(@, version)]

\* ------------------------------------------------------------ registry API
HasProject(name) == name \in DOMAIN projects
HasPackage(prj, pkg) == HasProject(prj) /\ pkg \in DOMAIN projects[prj].packages
Package(prj, pkg) == projects[prj].packages[pkg]
SetPackage(prj, pkg, package) ==
    [projects EXCEPT ![prj].packages = Put(@, pkg, package)]

Done(op, req) == [op |-> op, req |-> req, status |-> "done", code |-> "", body |-> None]
Panicked(op) == [op |-> op, req |-> None, status |-> "panic", code |-> "", body |-> None]

\* A panic while the write guard is held poisons the lock.
WriterPanic(op) ==
    /\ poisoned' = TRUE
    /\ resp' = Panicked(op)

add_project(project_name) ==
    /\ ~poisoned
    /\ projects' = IF HasProject(project_name) THEN projects
                   ELSE Put(projects, project_name,
                            [packages |-> EmptyMap, repos |-> EmptyMap])
    /\ resp' = Done("add_project", [project |-> project_name])
    /\ UNCHANGED poisoned

add_new_package(project_name, package_name, initial_meta_srcmd5) ==
    /\ ~poisoned
    /\ IF ~HasProject(project_name)
       THEN WriterPanic("add_new_package") /\ UNCHANGED projects
       ELSE /\ projects' = SetPackage(project_name, package_name,
                              new_with_metadata(project_name, package_name,
                                                initial_meta_srcmd5))
            /\ resp' = Done("add_new_package",
                            [project |-> project_name, package |-> package_name])
            /\ UNCHANGED poisoned

add_package_files(project_name, package_name, file) ==
    /\ ~poisoned
    /\ IF ~HasPackage(project_name, package_name)
       THEN WriterPanic("add_package_files") /\ UNCHANGED projects
       ELSE LET kc == into_key_and_contents(file)
                package == Package(project_name, package_name)
            IN /\ projects' = SetPackage(project_name, package_name,
                     [package EXCEPT !.files = Put(@, kc.key, kc.contents)])
               /\ resp' = Done("add_package_files",
                               [project |-> project_name,
                                package |-> package_name, key |-> kc.key])
               /\ UNCHANGED poisoned

add_package_revision(project_name, package_name, srcmd5, version, entries) ==
    /\ ~poisoned
    /\ IF ~HasPackage(project_name, package_name)
       THEN WriterPanic("add_package_revision") /\ UNCHANGED projects
       ELSE LET package == Package(project_name, package_name)
            IN IF add_revision_assert(package, entries)
               THEN /\ projects' = SetPackage(project_name, package_name,
                          add_revision(package, srcmd5, version, entries))
                    /\ resp' = Done("add_package_revision",
                                    [project |-> project_name,
                                     package |-> package_name,
                                     version |-> version])
                    /\ UNCHANGED poisoned
               ELSE /\ projects' = SetPackage(project_name, package_name,
                          add_revision_panic(package, version))
                    /\ WriterPanic("add_package_revision")

\* branch: both get_project calls and revisions.last().unwrap() panic while
\* the write guard is held.
branch_panics(origin_project_name, origin_package_name, branched_project_name) ==
    \/ ~HasPackage(origin_project_name, origin_package_name)
    \/ Len(Package(origin_project_name, origin_package_name).revisions) = 0
    \/ ~HasProject(branched_project_name)

MockLinkInfo(project, package, baserev, srcmd5, xsrcmd5, lsrcmd5) ==
    [project |-> project, package |-> package, baserev |-> baserev,
     srcmd5 |-> srcmd5, xsrcmd5 |-> xsrcmd5, lsrcmd5 |-> lsrcmd5]

\* mutant: the branched package starts from an empty content store
branched_package_without_origin_files(origin_project_name, origin_package_name, branched_project_name, branched_package_name, srcmd5, xsrcmd5, meta_srcmd5) ==
    LET kc == into_key_and_contents(
                  new_metadata(branched_project_name, branched_package_name))
        origin == Package(origin_project_name, origin_package_name)
        origin_rev == origin.revisions[Len(origin.revisions)]
        origin_srcmd5 == origin_rev.srcmd5
        linkinfo == MockLinkInfo(origin_project_name, origin_package_name,
                                 origin_srcmd5, origin_srcmd5, xsrcmd5, srcmd5)
    IN [files |-> Put(EmptyMap, kc.key, kc.contents),
        revisions |-> << MockRevision(Some(1), srcmd5, None,
                                      origin_rev.entries, <<linkinfo>>) >>,
        meta_revisions |->
            << MockRevision(None, meta_srcmd5, None,
                            Put(EmptyMap, META_PATH, kc.key.md5), << >>) >>,
        latest_vrevs |-> Put(EmptyMap, None, 1)]

\* mutant: the link records the origin's first revision and swaps the local
\* and the expanded checksum
branched_package_wrong_link(origin_project_name, origin_package_name, branched_project_name, branched_package_name, srcmd5, xsrcmd5, meta_srcmd5) ==
    LET kc == into_key_and_contents(
                  new_metadata(branched_project_name, branched_package_name))
        origin == Package(origin_project_name, origin_package_name)
        origin_rev == origin.revisions[Len(origin.revisions)]
        origin_srcmd5 == origin.revisions[1].srcmd5
        linkinfo == MockLinkInfo(origin_project_name, origin_package_name,
                                 origin_srcmd5, origin_srcmd5, srcmd5, xsrcmd5)
    IN [files |-> Put(origin.files, kc.key, kc.contents),
        revisions |-> << MockRevision(Some(1), srcmd5, None,
                                      origin_rev.entries, <<linkinfo>>) >>,
        meta_revisions |->
            << MockRevision(None, meta_srcmd5, None,
                            Put(EmptyMap, META_PATH, kc.key.md5), << >>) >>,
        latest_vrevs |-> Put(EmptyMap, None, 1)]

\* the MockPackage that branch inserts
branched_package(origin_project_name, origin_package_name, branched_project_name, branched_package_name, srcmd5, xsrcmd5, meta_srcmd5) ==
    LET kc == into_key_and_contents(
                  new_metadata(branched_project_name, branched_package_name))
        origin == Package(origin_project_name, origin_package_name)
        origin_rev == origin.revisions[Len(origin.revisions)]
        origin_srcmd5 == origin_rev.srcmd5
        linkinfo == MockLinkInfo(origin_project_name, origin_package_name,
                                 origin_srcmd5, origin_srcmd5, xsrcmd5, srcmd5)
    IN [files |-> Put(origin.files, kc.key, kc.contents),
        revisions |-> << MockRevision(Some(1), srcmd5, None,
                                      origin_rev.entries, <<linkinfo>>) >>,
        meta_revisions |->
            << MockRevision(None, meta_srcmd5, None,
                            Put(EmptyMap, META_PATH, kc.key.md5), << >>) >>,
        latest_vrevs |-> Put(EmptyMap, None, 1)]

branch(origin_project_name, origin_package_name, branched_project_name, branched_package_name, srcmd5, xsrcmd5, meta_srcmd5) ==
    /\ ~poisoned
    /\ IF branch_panics(origin_project_name, origin_package_name,
                        branched_project_name)
       THEN WriterPanic("branch") /\ UNCHANGED projects
       ELSE /\ projects' = SetPackage(branched_project_name,
                   branched_package_name,
                   branched_package(origin_project_name, origin_package_name,
                                    branched_project_name,
                                    branched_package_name,
                                    srcmd5, xsrcmd5, meta_srcmd5))
            /\ resp' = Done("branch",
                   [origin_project |-> origin_project_name,
                    origin_package |-> origin_package_name,
                    project |-> branched_project_name,
                    package |-> branched_package_name,
                    srcmd5 |-> srcmd5, xsrcmd5 |-> xsrcmd5])
            /\ UNCHANGED poisoned

\* ------------------------------------------------------------ build matrix
MockBuildStatus(code, dirty) == [code |-> code, dirty |-> dirty]
\* MockBuildStatus::default(): MockPackageCode::Unknown, not dirty
DefaultBuildStatus == MockBuildStatus("unknown", FALSE)

MockBuildLog(contents, chunk_size) ==
    [contents |-> contents, chunk_size |-> chunk_size]

\* MockRepositoryPackage::default()
DefaultRepositoryPackage ==
    [status |-> DefaultBuildStatus, latest_log |-> None,
     latest_successful_log |-> None]

MockRepository(code, packages) == [code |-> code, packages |-> packages]

HasRepo(prj, repo) == HasProject(prj) /\ repo \in DOMAIN projects[prj].repos
HasArch(prj, repo, arch) ==
    HasRepo(prj, repo) /\ arch \in DOMAIN projects[prj].repos[repo]
Repository(prj, repo, arch) == projects[prj].repos[repo][arch]
\* the (repository, architecture) pairs of a project
RepoArches(prj) ==
    UNION {{<<repo, arch>> : arch \in DOMAIN projects[prj].repos[repo]} :
              repo \in DOMAIN projects[prj].repos}

\* mutant: an update starts the entry afresh
upserted_repository_cleared(arches, arch, code) ==
    MockRepository(code, EmptyMap)

\* entry(arch).and_modify(|repo| repo.code = code).or_insert_with(...)
upserted_repository(arches, arch, code) ==
    IF arch \in DOMAIN arches THEN [arches[arch] EXCEPT !.code = code]
    ELSE MockRepository(code, EmptyMap)

add_or_update_repository(project_name, repo_name, arch, code) ==
    /\ ~poisoned
    /\ IF ~HasProject(project_name)
       THEN WriterPanic("add_or_update_repository") /\ UNCHANGED projects
       ELSE LET repos == projects[project_name].repos
                arches == IF repo_name \in DOMAIN repos THEN repos[repo_name]
                          ELSE EmptyMap
                repo == upserted_repository(arches, arch, code)
            IN /\ projects' = [projects EXCEPT ![project_name].repos =
                                  Put(@, repo_name, Put(arches, arch, repo))]
               /\ resp' = Done("add_or_update_repository",
                               [project |-> project_name, repo |-> repo_name,
                                arch |-> arch, code |-> code])
               /\ UNCHANGED poisoned

\* the entry(package_name).or_default() of with_repo_package
repo_package_or_default(repo, package_name) ==
    IF package_name \in DOMAIN repo.packages THEN repo.packages[package_name]
    ELSE DefaultRepositoryPackage

\* with_repo_package: `updated` is what func leaves in the package's entry
with_repo_package(op, project_name, repo_name, arch, package_name, updated) ==
    /\ ~poisoned
    /\ IF ~HasArch(project_name, repo_name, arch)
       THEN WriterPanic(op) /\ UNCHANGED projects
       ELSE /\ projects' =
                  [projects EXCEPT
                     ![project_name].repos[repo_name][arch].packages =
                         Put(@, package_name, updated)]
            /\ resp' = Done(op, [project |-> project_name, repo |-> repo_name,
                                 arch |-> arch, package |-> package_name])
            /\ UNCHANGED poisoned

set_package_build_status(project_name, repo_name, arch, package_name, status) ==
    with_repo_package("set_package_build_status", project_name, repo_name,
        arch, package_name,
        [repo_package_or_default(Repository(project_name, repo_name, arch),
                                 package_name)
            EXCEPT !.status = status])

\* mutant: every log is recorded as the latest successful one
add_completed_build_log_always_successful(project_name, repo_name, arch, package_name, log, success) ==
    with_repo_package("add_completed_build_log", project_name, repo_name,
        arch, package_name,
        LET package == repo_package_or_default(
                           Repository(project_name, repo_name, arch),
                           package_name)
        IN [package EXCEPT
              !.latest_successful_log = Some(log),
              !.latest_log = Some(log)])

add_completed_build_log(project_name, repo_name, arch, package_name, log, success) ==
    with_repo_package("add_completed_build_log", project_name, repo_name,
        arch, package_name,
        LET package == repo_package_or_default(
                           Repository(project_name, repo_name, arch),
                           package_name)
        IN [package EXCEPT
              !.latest_successful_log = IF success THEN Some(log) ELSE @,
              !.latest_log = Some(log)])

\* --------------------------------------------------------- request helpers
\* A request: [auth, project, package, file, query, body]; query maps the
\* names of the query parameters present to their values.
find_query_param(request, name) ==
    IF name \in DOMAIN request.query THEN Some(request.query[name]) ELSE None

check_auth(auth, request) == request.auth = auth

\* str::parse::<usize> on the decimal strings the model sends
DecimalValue == [s \in {"0", "1", "2", "3", "4", "5"} |->
                   CASE s = "0" -> 0 [] s = "1" -> 1 [] s = "2" -> 2
                     [] s = "3" -> 3 [] s = "4" -> 4 [] s = "5" -> 5]
parse_usize(s) == IF s \in DOMAIN DecimalValue THEN Some(DecimalValue[s]) ELSE None

Response(op, request, status, code, body) ==
    [op |-> op, req |-> request, status |-> status, code |-> code, body |-> body]
ApiError(op, request, status, code) == Response(op, request, status, code, None)
Unauthorized(op) == Response(op, None, "Unauthorized", "unauthorized", None)
\* a handler that panics under the read guard answers nothing and poisons
\* nothing; once the lock is poisoned every call panics on its unwrap() and
\* the registry is no longer observable, so no operation is enabled then
HandlerPanic(op, request) == Response(op, request, "panic", "", None)

\* ------------------------------------------------------ source_listing_xml
\* the .unwrap() of the files lookup in the entry loop
source_listing_panics(package, rev) ==
    \E path \in DOMAIN rev.entries :
        MockSourceFileKey(path, rev.entries[path]) \notin DOMAIN package.files

source_listing_xml(package_name, package, rev_id, rev) ==
    [name |-> package_name, rev |-> Some(rev_id), vrev |-> rev.vrev,
     srcmd5 |-> rev.srcmd5, linkinfo |-> rev.linkinfo,
     entries |-> {[name |-> path, md5 |-> rev.entries[path],
                   size |-> Len(package.files[
                               MockSourceFileKey(path, rev.entries[path])])] :
                  path \in DOMAIN rev.entries}]

zero_revision_xml(package_name) ==
    [name |-> package_name, rev |-> None, vrev |-> None,
     srcmd5 |-> ZERO_REV_SRCMD5, linkinfo |-> << >>, entries |-> {}]

\* ------------------------------------------- PackageSourceListingResponder
\* the `meta` parameter: Some(TRUE/FALSE), or None for "not boolean"
list_meta_of(request) ==
    LET meta == find_query_param(request, "meta")
    IN IF meta = Some("1") THEN Some(TRUE)
       ELSE IF meta = None \/ meta = Some("0") THEN Some(FALSE)
       ELSE None

\* mutant: the zero revision is forgotten
rev_index_ok_from_one(package, index, list_meta) ==
    index <= Len(package.revisions) /\ index > 0

\* the ensure! on an explicit revision index
rev_index_ok(package, index, list_meta) ==
    index <= Len(package.revisions) /\ (index > 0 \/ ~list_meta)

listing_response(request) ==
    LET op == "list"
        package == Package(request.project, request.package)
        list_meta == list_meta_of(request)
        rev_arg == find_query_param(request, "rev")
        index == parse_usize(Unwrap(rev_arg))
        rev_id == IF IsSome(rev_arg) THEN Unwrap(index)
                  ELSE Len(package.revisions)
        revisions == IF Unwrap(list_meta) THEN package.meta_revisions
                     ELSE package.revisions
    IN IF ~check_auth(ConfiguredAuth, request) THEN Unauthorized(op)
       ELSE IF ~HasProject(request.project)
            THEN ApiError(op, request, "NotFound", "unknown_project")
       ELSE IF ~HasPackage(request.project, request.package)
            THEN ApiError(op, request, "NotFound", "unknown_package")
       ELSE IF list_meta = None
            THEN ApiError(op, request, "BadRequest", "not boolean")
       ELSE IF IsSome(rev_arg) /\ index = None
            THEN ApiError(op, request, "BadRequest", "bad revision")
       ELSE IF IsSome(rev_arg)
               /\ ~rev_index_ok(package, Unwrap(index), Unwrap(list_meta))
            THEN ApiError(op, request, "BadRequest", "no such revision")
       ELSE IF rev_id = 0
            THEN IF Unwrap(list_meta)      \* assert!(!list_meta)
                 THEN HandlerPanic(op, request)
                 ELSE Response(op, request, "Ok", "zero",
                               zero_revision_xml(request.package))
       ELSE IF rev_id > Len(revisions)     \* &revisions[rev_id - 1]
            THEN HandlerPanic(op, request)
       ELSE IF source_listing_panics(package, revisions[rev_id])
            THEN HandlerPanic(op, request)
       ELSE Response(op, request, "Ok", "directory",
                     source_listing_xml(request.package, package, rev_id,
                                        revisions[rev_id]))

PackageSourceListingResponder(request) ==
    /\ ~poisoned
    /\ resp' = listing_response(request)
    /\ UNCHANGED <<projects, poisoned>>

\* ---------------------------------------------- PackageSourceFileResponder
\* mutant: any stored file of the path is served, committed or not
file_entry_of_store(package, rev, file_name) ==
    IF \E key \in DOMAIN package.files : key.path = file_name
    THEN Some((CHOOSE key \in DOMAIN package.files : key.path = file_name).md5)
    ELSE None

\* rev.entries.get(file_name), as an option on the md5
file_entry(package, rev, file_name) ==
    IF file_name \in DOMAIN rev.entries THEN Some(rev.entries[file_name])
    ELSE None

file_response(request) ==
    LET op == "file"
        package == Package(request.project, request.package)
        meta_rev == package.meta_revisions[Len(package.meta_revisions)]
        rev == package.revisions[Len(package.revisions)]
        entry == file_entry(package, rev, request.file)
    IN IF ~check_auth(ConfiguredAuth, request) THEN Unauthorized(op)
       ELSE IF ~HasProject(request.project)
            THEN ApiError(op, request, "NotFound", "unknown_project")
       ELSE IF ~HasPackage(request.project, request.package)
            THEN ApiError(op, request, "NotFound", "unknown_package")
       ELSE IF request.file = "_meta"
            THEN IF \/ Len(package.meta_revisions) = 0       \* the unwrap()s
                    \/ META_PATH \notin DOMAIN meta_rev.entries
                    \/ MockSourceFileKey(META_PATH, meta_rev.entries[META_PATH])
                           \notin DOMAIN package.files
                 THEN HandlerPanic(op, request)
                 ELSE Response(op, request, "Ok", "application/xml",
                          package.files[MockSourceFileKey(META_PATH,
                                            meta_rev.entries[META_PATH])])
       ELSE IF Len(package.revisions) = 0
            THEN ApiError(op, request, "NotFound", "404")
       ELSE IF entry = None
            THEN ApiError(op, request, "NotFound", "404")
       ELSE IF MockSourceFileKey(request.file, Unwrap(entry))
                   \notin DOMAIN package.files            \* the unwrap()
            THEN HandlerPanic(op, request)
       ELSE Response(op, request, "Ok", "application/octet-stream",
                     package.files[MockSourceFileKey(request.file,
                                                     Unwrap(entry))])

PackageSourceFileResponder(request) ==
    /\ ~poisoned
    /\ resp' = file_response(request)
    /\ UNCHANGED <<projects, poisoned>>

\* ----------------------------------------- PackageSourcePlacementResponder
\* mutant: the credentials are checked after the project lookup
placement_response_auth_after_lookup(request, random_md5) ==
    LET op == "place"
        rev == find_query_param(request, "rev")
    IN IF ~HasProject(request.project)
       THEN ApiError(op, request, "NotFound", "unknown_project")
       ELSE IF ~check_auth(ConfiguredAuth, request) THEN Unauthorized(op)
       ELSE IF request.file = META_PATH
            THEN Response(op, request, "Ok", "ok", None)
       ELSE IF ~HasPackage(request.project, request.package)
            THEN ApiError(op, request, "NotFound", "unknown_package")
       ELSE IF rev = Some("repository")
            THEN Response(op, request, "Ok", "revision",
                          [rev |-> "repository", srcmd5 |-> random_md5])
       ELSE ApiError(op, request, "MisdirectedRequest", "unsupported")

\* request.body is the uploaded byte string; random_md5 is what random_md5()
\* draws in this call: the srcmd5 of the package the _meta branch creates,
\* or the <srcmd5> of the answer to an upload.
placement_response(request, random_md5) ==
    LET op == "place"
        rev == find_query_param(request, "rev")
    IN IF ~check_auth(ConfiguredAuth, request) THEN Unauthorized(op)
       ELSE IF ~HasProject(request.project)
            THEN ApiError(op, request, "NotFound", "unknown_project")
       ELSE IF request.file = META_PATH
            THEN Response(op, request, "Ok", "ok", None)
       ELSE IF ~HasPackage(request.project, request.package)
            THEN ApiError(op, request, "NotFound", "unknown_package")
       ELSE IF rev = Some("repository")
            THEN Response(op, request, "Ok", "revision",
                          [rev |-> "repository", srcmd5 |-> random_md5])
       ELSE ApiError(op, request, "MisdirectedRequest", "unsupported")

\* mutant: every accepted upload also records a source revision
placement_effect_commits(request, random_md5) ==
    LET r == placement_response(request, random_md5)
    IN IF r.status # "Ok" THEN projects
       ELSE IF request.file = META_PATH
            THEN IF HasPackage(request.project, request.package)
                 THEN projects
                 ELSE SetPackage(request.project, request.package,
                          new_with_metadata(request.project, request.package,
                                            random_md5))
       ELSE LET kc == into_key_and_contents(
                          [path |-> request.file, contents |-> request.body])
                package == Package(request.project, request.package)
            IN SetPackage(request.project, request.package,
                   add_revision([package EXCEPT
                                    !.files = Put(@, kc.key, kc.contents)],
                                random_md5, None,
                                Put(EmptyMap, kc.key.path, kc.key.md5)))

\* mutant: the uploaded file is stored before the rev parameter is looked at
placement_effect_before_rev_check(request, random_md5) ==
    LET r == placement_response(request, random_md5)
    IN IF r.status \notin {"Ok", "MisdirectedRequest"} THEN projects
       ELSE IF request.file = META_PATH
            THEN IF HasPackage(request.project, request.package)
                 THEN projects
                 ELSE SetPackage(request.project, request.package,
                          new_with_metadata(request.project, request.package,
                                            random_md5))
       ELSE LET kc == into_key_and_contents(
                          [path |-> request.file, contents |-> request.body])
                package == Package(request.project, request.package)
            IN SetPackage(request.project, request.package,
                   [package EXCEPT !.files = Put(@, kc.key, kc.contents)])

\* the registry after the placement handler has run
placement_effect(request, random_md5) ==
    LET r == placement_response(request, random_md5)
    IN IF r.status # "Ok" THEN projects
       ELSE IF request.file = META_PATH
            THEN IF HasPackage(request.project, request.package)
                 THEN projects
                 ELSE SetPackage(request.project, request.package,
                          new_with_metadata(request.project, request.package,
                                            random_md5))
       ELSE LET kc == into_key_and_contents(
                          [path |-> request.file, contents |-> request.body])
                package == Package(request.project, request.package)
            IN SetPackage(request.project, request.package,
                   [package EXCEPT !.files = Put(@, kc.key, kc.contents)])

PackageSourcePlacementResponder(request, random_md5) ==
    /\ ~poisoned
    /\ resp' = placement_response(request, random_md5)
    /\ projects' = placement_effect(request, random_md5)
    /\ UNCHANGED poisoned

\* ------------------------------------------- PackageSourceCommandResponder
\* request.body is Some(filelist) when parse_xml_request succeeds (filelist
\* a sequence of [name, md5]) and None when it fails.
\* mutant: the first entry of a name wins instead of the last
commit_entries_first_wins(package, filelist) ==
    LET present == {i \in 1..Len(filelist) :
                       MockSourceFileKey(filelist[i].name, filelist[i].md5)
                           \in DOMAIN package.files}
        first(name) == CHOOSE i \in present :
                           /\ filelist[i].name = name
                           /\ \A j \in present :
                                  filelist[j].name = name => i <= j
    IN [name \in {filelist[i].name : i \in present} |->
           filelist[first(name)].md5]

RECURSIVE commit_entries(_, _)
\* the `entries` map built by the loop over the file list: later entries of
\* the same name replace earlier ones
commit_entries(package, filelist) ==
    IF Len(filelist) = 0 THEN EmptyMap
    ELSE LET n == Len(filelist)
             req_entry == filelist[n]
             before == commit_entries(package, SubSeq(filelist, 1, n - 1))
         IN IF MockSourceFileKey(req_entry.name, req_entry.md5)
                   \in DOMAIN package.files
            THEN Put(before, req_entry.name, req_entry.md5)
            ELSE before

\* mutant: once something is missing, every candidate is reported
commit_missing_reports_all(package, filelist) ==
    IF \E i \in 1..Len(filelist) :
           MockSourceFileKey(filelist[i].name, filelist[i].md5)
               \notin DOMAIN package.files
    THEN filelist ELSE << >>

\* mutant: an entry is looked up by its digest alone, under any path
commit_missing_by_digest(package, filelist) ==
    SelectSeq(filelist,
              LAMBDA req_entry :
                  \A key \in DOMAIN package.files : key.md5 # req_entry.md5)

\* the `missing` vector built by the same loop, in request order
commit_missing(package, filelist) ==
    SelectSeq(filelist,
              LAMBDA req_entry :
                  MockSourceFileKey(req_entry.name, req_entry.md5)
                      \notin DOMAIN package.files)

\* the package after a commitfilelist that found nothing missing
commit_package(package, filelist, srcmd5) ==
    add_revision(package, srcmd5, None, commit_entries(package, filelist))

command_response(request, srcmd5) ==
    LET op == "command"
        cmd == find_query_param(request, "cmd")
        package == Package(request.project, request.package)
        filelist == Unwrap(request.body)
        missing == commit_missing(package, filelist)
        after == commit_package(package, filelist, srcmd5)
    IN IF ~check_auth(ConfiguredAuth, request) THEN Unauthorized(op)
       ELSE IF ~HasProject(request.project)
            THEN ApiError(op, request, "NotFound", "unknown_project")
       ELSE IF ~HasPackage(request.project, request.package)
            THEN ApiError(op, request, "NotFound", "unknown_package")
       ELSE IF cmd = None
            THEN ApiError(op, request, "BadRequest", "missing_parameter")
       ELSE IF cmd # Some("commitfilelist")
            THEN ApiError(op, request, "NotFound", "illegal_request")
       ELSE IF request.body = None
            THEN ApiError(op, request, "BadRequest", "400")
       ELSE IF Len(missing) > 0
            THEN Response(op, request, "Ok", "missing",
                          [name |-> request.package, entries |-> missing])
       ELSE IF ~add_revision_assert(package, commit_entries(package, filelist))
            THEN Panicked(op)
       ELSE Response(op, request, "Ok", "directory",
                     source_listing_xml(request.package, after,
                                        Len(after.revisions),
                                        after.revisions[Len(after.revisions)]))

\* mutant: the revision is created from the present entries even when the
\* handler answers "missing"
command_effect_commits_partially(request, srcmd5) ==
    LET r == command_response(request, srcmd5)
        package == Package(request.project, request.package)
    IN IF r.status = "Ok"
       THEN SetPackage(request.project, request.package,
                commit_package(package, Unwrap(request.body), srcmd5))
       ELSE projects

command_effect(request, srcmd5) ==
    LET r == command_response(request, srcmd5)
        package == Package(request.project, request.package)
    IN IF r.status = "Ok" /\ r.code = "directory"
       THEN SetPackage(request.project, request.package,
                commit_package(package, Unwrap(request.body), srcmd5))
       ELSE IF r.status = "panic"
       THEN SetPackage(request.project, request.package,
                add_revision_panic(package, None))
       ELSE projects

PackageSourceCommandResponder(request, srcmd5) ==
    /\ ~poisoned
    /\ resp' = command_response(request, srcmd5)
    /\ projects' = command_effect(request, srcmd5)
    /\ poisoned' = (resp'.status = "panic")

\* ------------------------------------------------------ build request helpers
\* A build request: [auth, project, repo, arch, package, pairs]; pairs is
\* url.query_pairs(), the sequence of the [key, value] of the query string.
BuildRequest(auth, project, repo, arch, package, pairs) ==
    [auth |-> auth, project |-> project, repo |-> repo, arch |-> arch,
     package |-> package, pairs |-> pairs]

\* ---------------------------------------------- Repo/ArchListingResponder
\* the orders in which a HashMap may yield the keys S: each key once
KeyOrders(S) ==
    {order \in [1..Cardinality(S) -> S] :
        \A k \in S : \E i \in 1..Cardinality(S) : order[i] = k}

\* mutant: one entry for every (repository, architecture) pair
repo_listing_entries_per_arch(project) ==
    LET pairs == UNION {{<<repo, arch>> : arch \in DOMAIN project.repos[repo]} :
                           repo \in DOMAIN project.repos}
    IN {[i \in 1..Cardinality(pairs) |-> order[i][1]] :
           order \in KeyOrders(pairs)}

\* the entry names of the loop over project.repos.keys(), in any of the
\* orders the map may yield them
repo_listing_entries(project) == KeyOrders(DOMAIN project.repos)

\* `order` is the sequence of entry names the loop produced
repo_listing_response(request, order) ==
    LET op == "repos"
    IN IF ~check_auth(ConfiguredAuth, request) THEN Unauthorized(op)
       ELSE IF ~HasProject(request.project)
            THEN ApiError(op, request, "NotFound", "unknown_project")
       ELSE Response(op, request, "Ok", "directory", order)

RepoListingResponder(request) ==
    /\ ~poisoned
    /\ \E order \in (IF HasProject(request.project)
                      THEN repo_listing_entries(projects[request.project])
                      ELSE {<< >>}) :
          resp' = repo_listing_response(request, order)
    /\ UNCHANGED <<projects, poisoned>>

arch_listing_response(request, order) ==
    LET op == "arches"
    IN IF ~check_auth(ConfiguredAuth, request) THEN Unauthorized(op)
       ELSE IF ~HasProject(request.project)
            THEN ApiError(op, request, "NotFound", "unknown_project")
       ELSE IF request.repo \notin DOMAIN projects[request.project].repos
            THEN ApiError(op, request, "NotFound", "404")
       ELSE Response(op, request, "Ok", "directory", order)

ArchListingResponder(request) ==
    /\ ~poisoned
    /\ \E order \in (IF HasRepo(request.project, request.repo)
                      THEN KeyOrders(DOMAIN projects[request.project]
                                               .repos[request.repo])
                      ELSE {<< >>}) :
          resp' = arch_listing_response(request, order)
    /\ UNCHANGED <<projects, poisoned>>

\* the values given for a key, in the order of the query string
pair_values(pairs, key) ==
    LET sel == SelectSeq(pairs, LAMBDA kv : kv.key = key)
    IN [i \in 1..Len(sel) |-> sel[i].value]

SeqRange(seq) == {seq[i] : i \in 1..Len(seq)}

\* ---------------------------------------------------- BuildResultsResponder
package_status_xml(package_name, status) ==
    [package |-> package_name, code |-> status.code, dirty |-> status.dirty]

\* mutant: a filtered name only fails the call when no repo/arch has it
results_missing_everywhere(project, package_filters) ==
    /\ DOMAIN project.repos # {}
    /\ \E name \in SeqRange(package_filters) :
           \A repo_name \in DOMAIN project.repos :
               \A arch \in DOMAIN project.repos[repo_name] :
                   name \notin DOMAIN project.repos[repo_name][arch].packages

\* the try_api! of the filter loop: some filtered name has no entry in some
\* repo/arch
results_missing(project, package_filters) ==
    \E repo_name \in DOMAIN project.repos :
        \E arch \in DOMAIN project.repos[repo_name] :
            \E name \in SeqRange(package_filters) :
                name \notin DOMAIN project.repos[repo_name][arch].packages

\* one <result>: its <status> children as a set, and how many there are
result_xml(repo_name, arch, repo, package_filters) ==
    LET names == IF Len(package_filters) = 0 THEN DOMAIN repo.packages
                 ELSE SeqRange(package_filters) \cap DOMAIN repo.packages
    IN [repository |-> repo_name, arch |-> arch, code |-> repo.code,
        statuses |-> {package_status_xml(n, repo.packages[n].status) :
                         n \in names},
        children |-> IF Len(package_filters) = 0
                     THEN Cardinality(DOMAIN repo.packages)
                     ELSE Len(package_filters)]

results_response(request) ==
    LET op == "results"
        project == projects[request.project]
        package_filters == pair_values(request.pairs, "package")
    IN IF ~check_auth(ConfiguredAuth, request) THEN Unauthorized(op)
       ELSE IF \E i \in 1..Len(request.pairs) :
                   request.pairs[i].key # "package"
            THEN ApiError(op, request, "BadRequest", "400")
       ELSE IF ~HasProject(request.project)
            THEN ApiError(op, request, "NotFound", "unknown_project")
       ELSE IF Len(package_filters) > 0
               /\ results_missing(project, package_filters)
            THEN ApiError(op, request, "NotFound", "404")
       ELSE Response(op, request, "Ok", "resultlist",
                {result_xml(repo_name, arch,
                            project.repos[repo_name][arch], package_filters) :
                    <<repo_name, arch>> \in RepoArches(request.project)})

BuildResultsResponder(request) ==
    /\ ~poisoned
    /\ resp' = results_response(request)
    /\ UNCHANGED <<projects, poisoned>>

\* --------------------------------------------- ProjectBuildCommandResponder
\* find_query_param on a query string: the value of the first pair of a key
find_query_pair(request, name) ==
    LET values == pair_values(request.pairs, name)
    IN IF Len(values) = 0 THEN None ELSE Some(values[1])

\* project.rebuild_status, the status a rebuild gives to a package
rebuild_status == MockBuildStatus("scheduled", TRUE)

\* the first query pair the rebuild arm rejects, as an option
rebuild_rejected_pair(pairs) ==
    LET bad == SelectSeq(pairs, LAMBDA kv : kv.key \notin {"cmd", "package"})
    IN IF Len(bad) = 0 THEN None ELSE Some(bad[1])

\* package_names after the is_empty() default
rebuild_package_names(project, pairs) ==
    IF Len(pair_values(pairs, "package")) = 0 THEN DOMAIN project.packages
    ELSE SeqRange(pair_values(pairs, "package"))

\* mutant: only the entries a (repository, architecture) already has are
\* given the rebuild status
rebuild_repos_existing_entries(project, package_names) ==
    [repo_name \in DOMAIN project.repos |->
        [arch \in DOMAIN project.repos[repo_name] |->
            LET repo == project.repos[repo_name][arch]
            IN [repo EXCEPT !.packages =
                   [n \in DOMAIN repo.packages |->
                       IF n \in package_names
                       THEN [repo.packages[n] EXCEPT !.status = rebuild_status]
                       ELSE repo.packages[n]]]]]

\* the repos of the project after the status loop over package_names
rebuild_repos(project, package_names) ==
    [repo_name \in DOMAIN project.repos |->
        [arch \in DOMAIN project.repos[repo_name] |->
            LET repo == project.repos[repo_name][arch]
            IN [repo EXCEPT !.packages =
                   [n \in DOMAIN repo.packages \cup package_names |->
                       IF n \in package_names
                       THEN [repo_package_or_default(repo, n)
                                EXCEPT !.status = rebuild_status]
                       ELSE repo.packages[n]]]]]

build_command_response(request) ==
    LET op == "build_command"
        cmd == find_query_pair(request, "cmd")
        project == projects[request.project]
        rejected == rebuild_rejected_pair(request.pairs)
    IN IF ~check_auth(ConfiguredAuth, request) THEN Unauthorized(op)
       ELSE IF ~HasProject(request.project)
            THEN ApiError(op, request, "NotFound", "unknown_project")
       ELSE IF cmd = None
            THEN ApiError(op, request, "BadRequest", "missing_parameter")
       ELSE IF cmd # Some("rebuild")
            THEN ApiError(op, request, "BadRequest", "illegal_request")
       ELSE IF IsSome(rejected)
            THEN IF Unwrap(rejected).key
                        \in {"arch", "repository", "code", "lastbuild"}
                 THEN ApiError(op, request, "MisdirectedRequest", "unsupported")
                 ELSE ApiError(op, request, "BadRequest", "400")
       ELSE IF \E n \in rebuild_package_names(project, request.pairs) :
                   n \notin DOMAIN project.packages
            THEN ApiError(op, request, "NotFound", "not_found")
       ELSE Response(op, request, "Ok", "ok", None)

\* mutant: the packages the project knows are rebuilt before the unknown
\* name is reported
build_command_effect_rebuilds_known(request) ==
    LET r == build_command_response(request)
        project == projects[request.project]
    IN IF r.status = "Ok" \/ r.code = "not_found"
       THEN [projects EXCEPT ![request.project].repos =
                rebuild_repos(project,
                    rebuild_package_names(project, request.pairs)
                        \cap DOMAIN project.packages)]
       ELSE projects

\* the registry after the command handler has run
build_command_effect(request) ==
    LET r == build_command_response(request)
        project == projects[request.project]
    IN IF r.status = "Ok"
       THEN [projects EXCEPT ![request.project].repos =
                rebuild_repos(project,
                    rebuild_package_names(project, request.pairs))]
       ELSE projects

ProjectBuildCommandResponder(request) ==
    /\ ~poisoned
    /\ resp' = build_command_response(request)
    /\ projects' = build_command_effect(request)
    /\ UNCHANGED poisoned

\* -------------------------------------------------------- BuildLogResponder
\* parse_number_param: Some(n), or None for an empty or non-numeric value
parse_number_param(value) == IF value = "" THEN None ELSE parse_usize(value)

\* parse_bool_param: Some(TRUE/FALSE), or None for "not a boolean"
parse_bool_param(value) ==
    IF value = "1" THEN Some(TRUE)
    ELSE IF value = "0" THEN Some(FALSE) ELSE None

\* the arms of the match on a query pair that return an error
log_pair_rejected(kv) ==
    CASE kv.key \in {"start", "end"} -> parse_number_param(kv.value) = None
      [] kv.key \in {"last", "lastsucceeded", "nostream"} ->
             parse_bool_param(kv.value) = None
      [] kv.key = "view" /\ kv.value # "" -> kv.value # "entry"
      [] OTHER -> TRUE

\* the last value given for a key, if any
last_pair_value(pairs, key) ==
    LET values == pair_values(pairs, key)
    IN IF Len(values) = 0 THEN None ELSE Some(values[Len(values)])

\* mutant: the chunk is counted from the start of the log
log_end_chunk_from_zero(contents, chunk_size, start, end) ==
    LET clamped == IF IsSome(end) /\ Unwrap(end) < Len(contents)
                   THEN Unwrap(end) ELSE Len(contents)
    IN IF IsSome(chunk_size) /\ Unwrap(chunk_size) < clamped
       THEN Unwrap(chunk_size) ELSE clamped

\* the two std::cmp::min that give the effective end of a read
log_end(contents, chunk_size, start, end) ==
    LET clamped == IF IsSome(end) /\ Unwrap(end) < Len(contents)
                   THEN Unwrap(end) ELSE Len(contents)
    IN IF IsSome(chunk_size) /\ start + Unwrap(chunk_size) < clamped
       THEN start + Unwrap(chunk_size) ELSE clamped

log_response(request) ==
    LET op == "log"
        pairs == request.pairs
        start_arg == last_pair_value(pairs, "start")
        start == IF IsSome(start_arg)
                 THEN Unwrap(parse_number_param(Unwrap(start_arg))) ELSE 0
        end_arg == last_pair_value(pairs, "end")
        end == IF IsSome(end_arg) THEN parse_number_param(Unwrap(end_arg))
               ELSE None
        succ_arg == last_pair_value(pairs, "lastsucceeded")
        last_successful == IF IsSome(succ_arg)
                           THEN Unwrap(parse_bool_param(Unwrap(succ_arg)))
                           ELSE FALSE
        entry_view == \E i \in 1..Len(pairs) :
                          pairs[i].key = "view" /\ pairs[i].value = "entry"
        package == Repository(request.project, request.repo, request.arch)
                       .packages[request.package]
        log == IF last_successful THEN package.latest_successful_log
               ELSE package.latest_log
        contents == IF IsSome(log) THEN Unwrap(log).contents ELSE << >>
        chunk_size == IF IsSome(log) THEN Unwrap(log).chunk_size ELSE None
        effective_end == log_end(contents, chunk_size, start, end)
    IN IF ~check_auth(ConfiguredAuth, request) THEN Unauthorized(op)
       ELSE IF \E i \in 1..Len(pairs) : log_pair_rejected(pairs[i])
            THEN ApiError(op, request, "BadRequest", "400")
       ELSE IF ~HasProject(request.project)
            THEN ApiError(op, request, "NotFound", "unknown_project")
       ELSE IF ~HasRepo(request.project, request.repo)
            THEN ApiError(op, request, "NotFound", "unknown_repo")
       ELSE IF ~HasArch(request.project, request.repo, request.arch)
            THEN ApiError(op, request, "NotFound", "unknown_arch")
       ELSE IF request.package \notin
                   DOMAIN Repository(request.project, request.repo,
                                     request.arch).packages
            THEN ApiError(op, request, "NotFound", "unknown_package")
       ELSE IF entry_view
            THEN Response(op, request, "Ok", "directory",
                     IF IsSome(log) THEN {[name |-> "_log",
                                           size |-> Len(contents)]}
                     ELSE {})
       ELSE IF start > Len(contents)
            THEN ApiError(op, request, "BadRequest", "start out of range")
       ELSE IF start > effective_end       \* &contents[start..end]
            THEN HandlerPanic(op, request)
       ELSE Response(op, request, "Ok", "log",
                     SubSeq(contents, start + 1, effective_end))

BuildLogResponder(request) ==
    /\ ~poisoned
    /\ resp' = log_response(request)
    /\ UNCHANGED <<projects, poisoned>>

\* ------------------------------------------------------------ the requests
OptParam(name, opt) == [k \in (IF opt = None THEN {} ELSE {name}) |-> opt[1]]
Merge(f, g) ==
    [k \in DOMAIN f \cup DOMAIN g |-> IF k \in DOMAIN f THEN f[k] ELSE g[k]]

Request(auth, project, package, file, query, body) ==
    [auth |-> auth, project |-> project, package |-> package, file |-> file,
     query |-> query, body |-> body]

Opt(S) == {None} \cup {Some(x) : x \in S}

RevArgs == {s \in DOMAIN DecimalValue : DecimalValue[s] <= MaxRevs + 1} \cup {"x"}
MetaArgs == {"0", "1", "x"}

ListingRequests(creds, packages, revs, metas) ==
    {Request(a, p, k, "", Merge(OptParam("rev", r), OptParam("meta", m)), None) :
        a \in creds, p \in ProjectNames, k \in packages,
        r \in revs, m \in metas}

PlacementRequests(creds, packages, files, revs, bodies) ==
    {Request(a, p, k, f, OptParam("rev", r), b) :
        a \in creds, p \in ProjectNames, k \in packages, f \in files,
        r \in revs, b \in bodies}

Candidates(names, bodies) ==
    {[name |-> n, md5 |-> Md5(b)] : n \in names, b \in bodies}
FileLists(candidates, maxlen) ==
    UNION {[1..n -> candidates] : n \in 1..maxlen}

CommandRequests(creds, packages, cmds, bodies) ==
    {Request(a, p, k, "", OptParam("cmd", c), b) :
        a \in creds, p \in ProjectNames, k \in packages,
        c \in cmds, b \in bodies}

Pair(key, value) == [key |-> key, value |-> value]
\* query strings of at most maxlen pairs
QueryPairs(pairs, maxlen) == UNION {[1..n -> pairs] : n \in 0..maxlen}

ResultsRequests(creds, queries) ==
    {BuildRequest(a, p, "", "", "", q) :
        a \in creds, p \in ProjectNames, q \in queries}

\* --------------------------------------------------------- commit handshake
\* What a client following the two-phase handshake has done so far: the
\* commit that reported missing entries, the entries it still has to upload,
\* and whether the step just taken was the retry of that commit.
HandshakeIdle == [phase |-> "idle", request |-> None, missing |-> << >>, todo |-> {}]

IsUploadOf(r, request, entry) ==
    /\ r.op = "place" /\ r.req # None
    /\ r.req.project = request.project /\ r.req.package = request.package
    /\ find_query_param(r.req, "rev") = Some("repository")
    /\ r.req.file = entry.name
    /\ Md5(r.req.body) = entry.md5

HandshakeStep ==
    handshake' =
        IF /\ handshake.phase = "placing" /\ handshake.todo = {}
           /\ resp'.op = "command" /\ resp'.req = handshake.request
        THEN [handshake EXCEPT !.phase = "retried"]
        ELSE IF resp'.op = "command" /\ resp'.code = "missing"
        THEN [phase |-> "placing", request |-> resp'.req,
              missing |-> resp'.body.entries,
              todo |-> {resp'.body.entries[i] :
                           i \in 1..Len(resp'.body.entries)}]
        ELSE IF /\ handshake.phase = "placing"
                /\ \E e \in handshake.todo :
                       IsUploadOf(resp', handshake.request, e)
        THEN [handshake EXCEPT !.todo =
                 {e \in @ : ~IsUploadOf(resp', handshake.request, e)}]
        ELSE HandshakeIdle

\* ------------------------------------------------------------ log reader
\* A client streaming a log: where it started, where it is, the end it asked
\* for, and the chunks it has received.
ReaderIdle ==
    [phase |-> "idle", start |-> 0, offset |-> 0, end |-> None,
     chunks |-> << >>]

\* usize::to_string on the offsets the client sends
ToDecimal(n) == CHOOSE t \in DOMAIN DecimalValue : DecimalValue[t] = n

\* the request of one read of the stream
ReaderRequest(rd) ==
    BuildRequest(ConfiguredAuth, "prj", "r1", "x86", "pkg",
        <<Pair("start", ToDecimal(rd.offset))>>
            \o (IF IsSome(rd.end)
                THEN <<Pair("end", ToDecimal(Unwrap(rd.end)))>> ELSE << >>))

\* one read: the stream fails on an error, ends on an empty chunk, and
\* otherwise advances by the bytes received
ReaderRead(rd) ==
    /\ BuildLogResponder(ReaderRequest(rd))
    /\ reader' =
          IF resp'.status # "Ok" THEN [rd EXCEPT !.phase = "failed"]
          ELSE IF Len(resp'.body) = 0 THEN [rd EXCEPT !.phase = "done"]
          ELSE [rd EXCEPT !.phase = "reading",
                          !.offset = @ + Len(resp'.body),
                          !.chunks = Append(@, resp'.body)]

ReaderStart(offset, end) ==
    /\ reader.phase # "reading"
    /\ ReaderRead([ReaderIdle EXCEPT !.start = offset, !.offset = offset,
                                     !.end = end])

ReaderNext == reader.phase = "reading" /\ ReaderRead(reader)

\* -------------------------------------------------------------- monitor
\* monitor() of obsctl: `last` is its Vec<MonitorData>, polls the number of
\* p.result() calls it has made, outcome what it returned.
MonitorIdle == [phase |-> "idle", last |-> << >>, polls |-> 0, outcome |-> None]

MonitorData(repository, arch, code) ==
    [repository |-> repository, arch |-> arch, code |-> code]

\* PackageCode::is_final
FinalCodes ==
    {"succeeded", "failed", "broken", "unresolvable", "disabled", "excluded"}
is_final(code) == code \in FinalCodes

\* mutant: the raw code is taken whether the result is dirty or not
from_result_raw(r) == MonitorData(r.repository, r.arch, r.code)

\* MonitorData::from_result: r is a ResultListResult, with the code of the
\* monitored package's status
from_result(r) ==
    MonitorData(r.repository, r.arch, IF r.dirty THEN "unknown" ELSE r.code)

\* mutant: an Unknown observation replaces what was stored
monitor_observe_overwrites(last, data) ==
    LET found == {i \in 1..Len(last) :
                     /\ last[i].repository = data.repository
                     /\ last[i].arch = data.arch}
    IN IF found = {} THEN Append(last, data)
       ELSE LET i == CHOOSE j \in found : \A k \in found : j <= k
            IN IF last[i].code # data.code
               THEN [last EXCEPT ![i] = data] ELSE last

\* the body of the loop over result.results for one result
monitor_observe(last, data) ==
    LET found == {i \in 1..Len(last) :
                     /\ last[i].repository = data.repository
                     /\ last[i].arch = data.arch}
    IN IF found = {} THEN Append(last, data)
       ELSE LET i == CHOOSE j \in found : \A k \in found : j <= k
            IN IF data.code # "unknown" /\ last[i].code # data.code
               THEN [last EXCEPT ![i] = data] ELSE last

RECURSIVE monitor_absorb(_, _)
\* `last` after the loop over result.results
monitor_absorb(last, results) ==
    IF Len(results) = 0 THEN last
    ELSE monitor_absorb(monitor_observe(last, from_result(results[1])),
                        Tail(results))

\* mutant: only the pair tracked first is looked at
monitor_finished_first(last) ==
    Len(last) = 0 \/ is_final(last[1].code)

\* mutant: the loop ends as soon as one pair is final
monitor_finished_any(last) ==
    \E i \in 1..Len(last) : is_final(last[i].code)

\* last.iter().all(|m| m.code.is_final())
monitor_finished(last) ==
    \A i \in 1..Len(last) : is_final(last[i].code)

\* mutant: the excluded failure needs at least one tracked pair
monitor_outcome_some_excluded(last) ==
    IF Len(last) > 0
       /\ \A i \in 1..Len(last) : last[i].code \in {"excluded", "disabled"}
    THEN "excluded"
    ELSE IF \E i \in 1..Len(last) : last[i].code = "failed"
    THEN "build failure"
    ELSE "success"

\* mutant: one excluded pair is enough for the excluded failure
monitor_outcome_any_excluded(last) ==
    IF \E i \in 1..Len(last) : last[i].code \in {"excluded", "disabled"}
    THEN "excluded"
    ELSE IF \E i \in 1..Len(last) : last[i].code = "failed"
    THEN "build failure"
    ELSE "success"

\* what monitor() returns after the loop
monitor_outcome(last) ==
    IF \A i \in 1..Len(last) : last[i].code \in {"excluded", "disabled"}
    THEN "excluded"
    ELSE IF \E i \in 1..Len(last) : last[i].code = "failed"
    THEN "build failure"
    ELSE "success"

\* one iteration of the loop: the poll, the diff and, when every stored code
\* is final, the classification; response is Some(results) or None when
\* p.result() failed
monitor_iteration(m, response) ==
    IF response = None
    THEN [m EXCEPT !.phase = "failed", !.polls = @ + 1,
                   !.outcome = Some("error")]
    ELSE LET last == monitor_absorb(m.last, Unwrap(response))
         IN IF monitor_finished(last)
            THEN [phase |-> "done", last |-> last, polls |-> m.polls + 1,
                  outcome |-> Some(monitor_outcome(last))]
            ELSE [phase |-> "polling", last |-> last, polls |-> m.polls + 1,
                  outcome |-> None]

MonitorPoll(response) ==
    /\ monitor.phase \in {"idle", "polling"}
    /\ monitor.polls < MaxPolls
    /\ monitor' = monitor_iteration(monitor, response)
    /\ UNCHANGED <<projects, poisoned, resp, handshake, reader, lock, threads>>

\* what p.result() gave the monitor: Some(results), or None for an error
Polled(response) ==
    [op |-> "result", req |-> None,
     status |-> IF response = None THEN "error" ELSE "Ok",
     code |-> "resultlist", body |-> response]

\* the same iteration of a monitor that is left running: resp is what its
\* poll received, and polls counts up to MaxPolls and stays there
MonitorLoop(response) ==
    /\ monitor.phase \in {"idle", "polling"}
    /\ monitor' = [monitor_iteration(monitor, response)
                      EXCEPT !.polls = IF @ > MaxPolls THEN MaxPolls ELSE @]
    /\ resp' = Polled(response)
    /\ UNCHANGED <<projects, poisoned, handshake, reader, lock, threads>>


\* ------------------------------------------------- handlers as server threads
\* The server runs each request on a thread of its own. A handler checks the
\* credentials, takes the registry lock (projects().write() or .read()),
\* works on the registry in the steps below and drops the guard when it
\* returns. threads[t] = [pc, kind, req, acc, response]: acc holds the
\* handler's local variables between steps.
LockFree == [writer |-> None, readers |-> {}]
ThreadIdle ==
    [pc |-> "idle", kind |-> "", req |-> None, acc |-> None, response |-> None]

WriterKinds == {"command", "place", "build_command"}
ReaderKinds == {"results", "listing"}

\* mutant: write() does not wait for the other holders
write_acquirable_unguarded == TRUE

\* RwLock::write returns when nobody holds the lock
write_acquirable == lock.writer = None /\ lock.readers = {}

\* mutant: read() does not wait for a writer
read_acquirable_during_write == TRUE

\* RwLock::read returns when no writer holds the lock
read_acquirable == lock.writer = None

\* dropping the guard of thread t
Release(lk, t) ==
    [writer |-> IF lk.writer = Some(t) THEN None ELSE lk.writer,
     readers |-> lk.readers \ {t}]

\* the handler of thread t returns `response`
Finish(t, response) ==
    /\ threads' = [threads EXCEPT ![t] =
                      [@ EXCEPT !.pc = "done", !.response = Some(response)]]
    /\ lock' = Release(lock, t)

\* the handler of thread t goes on at pc with the locals acc
Goto(t, pc, acc) ==
    /\ threads' = [threads EXCEPT ![t] = [@ EXCEPT !.pc = pc, !.acc = acc]]
    /\ UNCHANGED lock

\* a request arrives: check_auth comes before the lock is taken
ThreadStart(t, kind, request) ==
    /\ ~poisoned
    /\ threads[t].pc = "idle"
    /\ threads' = [threads EXCEPT ![t] =
          IF check_auth(ConfiguredAuth, request)
          THEN [pc |-> "wait", kind |-> kind, req |-> request, acc |-> None,
                response |-> None]
          ELSE [pc |-> "done", kind |-> kind, req |-> request, acc |-> None,
                response |-> Some(Unauthorized(kind))]]
    /\ UNCHANGED <<projects, poisoned, lock>>

\* projects().write().unwrap() or projects().read().unwrap()
ThreadAcquire(t) ==
    /\ ~poisoned
    /\ threads[t].pc = "wait"
    /\ IF threads[t].kind \in WriterKinds
       THEN /\ write_acquirable
            /\ lock' = [lock EXCEPT !.writer = Some(t)]
       ELSE /\ read_acquirable
            /\ lock' = [lock EXCEPT !.readers = @ \cup {t}]
    /\ threads' = [threads EXCEPT ![t].pc = "held"]
    /\ UNCHANGED <<projects, poisoned>>

\* PackageSourceCommandResponder up to the `missing` check: the lookups,
\* the cmd match, the body and the loop that builds `entries` and `missing`
CommitCheck(t) ==
    LET request == threads[t].req
        r == command_response(request, "")
    IN /\ ~poisoned
       /\ threads[t].pc = "held" /\ threads[t].kind = "command"
       /\ IF (r.status = "Ok" /\ r.code = "directory") \/ r.status = "panic"
          THEN Goto(t, "create",
                    commit_entries(Package(request.project, request.package),
                                   Unwrap(request.body)))
          ELSE Finish(t, r)
       /\ UNCHANGED <<projects, poisoned>>

\* package.add_revision(options, entries) with the entries of the loop
CommitCreate(t, srcmd5) ==
    LET request == threads[t].req
        package == Package(request.project, request.package)
        entries == threads[t].acc
    IN /\ ~poisoned
       /\ threads[t].pc = "create"
       /\ IF add_revision_assert(package, entries)
          THEN /\ projects' = SetPackage(request.project, request.package,
                      add_revision(package, srcmd5, None, entries))
               /\ Goto(t, "pushed", entries)
               /\ UNCHANGED poisoned
          ELSE /\ projects' = SetPackage(request.project, request.package,
                      add_revision_panic(package, None))
               /\ poisoned' = TRUE
               /\ Finish(t, Panicked("command"))

\* rev_id = package.revisions.len(), rev = revisions.last(), the answer
CommitRespond(t) ==
    LET request == threads[t].req
        package == Package(request.project, request.package)
        rev_id == Len(package.revisions)
    IN /\ ~poisoned
       /\ threads[t].pc = "pushed"
       /\ Finish(t, Response("command", request, "Ok", "directory",
                     source_listing_xml(request.package, package, rev_id,
                                        package.revisions[rev_id])))
       /\ UNCHANGED <<projects, poisoned>>

\* PackageSourcePlacementResponder under its guard
PlaceStep(t, random_md5) ==
    LET request == threads[t].req
    IN /\ ~poisoned
       /\ threads[t].pc = "held" /\ threads[t].kind = "place"
       /\ projects' = placement_effect(request, random_md5)
       /\ Finish(t, placement_response(request, random_md5))
       /\ UNCHANGED poisoned

\* the rebuild of one (repository, architecture) pair: the inner loop over
\* package_names
rebuild_one(project, package_names, repo_name, arch) ==
    [project EXCEPT !.repos[repo_name][arch] =
        rebuild_repos(project, package_names)[repo_name][arch]]

\* ProjectBuildCommandResponder up to the mutation loop
RebuildValidate(t) ==
    LET request == threads[t].req
        r == build_command_response(request)
    IN /\ ~poisoned
       /\ threads[t].pc = "held" /\ threads[t].kind = "build_command"
       /\ IF r.status = "Ok" /\ RepoArches(request.project) # {}
          THEN Goto(t, "mutate",
                    [names |-> rebuild_package_names(
                                   projects[request.project], request.pairs),
                     todo |-> RepoArches(request.project)])
          ELSE Finish(t, r)
       /\ UNCHANGED <<projects, poisoned>>

\* one round of the loops over project.repos.values_mut() and
\* arches.values_mut(), in the order the maps yield them
RebuildOne(t, repo_arch) ==
    LET request == threads[t].req
        acc == threads[t].acc
    IN /\ ~poisoned
       /\ threads[t].pc = "mutate"
       /\ repo_arch \in acc.todo
       /\ projects' = [projects EXCEPT ![request.project] =
              rebuild_one(@, acc.names, repo_arch[1], repo_arch[2])]
       /\ IF acc.todo = {repo_arch}
          THEN Finish(t, Response("build_command", request, "Ok", "ok", None))
          ELSE Goto(t, "mutate", [acc EXCEPT !.todo = @ \ {repo_arch}])
       /\ UNCHANGED poisoned

\* BuildResultsResponder up to the loop over the repositories
ResultsValidate(t) ==
    LET request == threads[t].req
        r == results_response(request)
    IN /\ ~poisoned
       /\ threads[t].pc = "held" /\ threads[t].kind = "results"
       /\ IF r.status = "Ok" /\ RepoArches(request.project) # {}
          THEN Goto(t, "reading",
                    [todo |-> RepoArches(request.project), seen |-> {}])
          ELSE Finish(t, r)
       /\ UNCHANGED <<projects, poisoned>>

\* one round of the loop: the <result> of one (repository, architecture)
ResultsReadOne(t, repo_arch) ==
    LET request == threads[t].req
        acc == threads[t].acc
        seen == acc.seen \cup
                  {result_xml(repo_arch[1], repo_arch[2],
                       projects[request.project].repos[repo_arch[1]][repo_arch[2]],
                       pair_values(request.pairs, "package"))}
    IN /\ ~poisoned
       /\ threads[t].pc = "reading"
       /\ repo_arch \in acc.todo
       /\ IF acc.todo = {repo_arch}
          THEN Finish(t, Response("results", request, "Ok", "resultlist", seen))
          ELSE Goto(t, "reading",
                    [todo |-> acc.todo \ {repo_arch}, seen |-> seen])
       /\ UNCHANGED <<projects, poisoned>>

\* PackageSourceListingResponder under its read guard
ListingStep(t) ==
    /\ ~poisoned
    /\ threads[t].pc = "held" /\ threads[t].kind = "listing"
    /\ Finish(t, listing_response(threads[t].req))
    /\ UNCHANGED <<projects, poisoned>>

\* a call of the test's own thread (add_project, add_package_files, ...)
\* takes the write lock for the whole call
LibraryCall == lock = LockFree /\ UNCHANGED <<lock, threads>>

\* ----------------------------------------------------------- specification
EntryMaps(paths, bodies) ==
    UNION {[ps -> {Md5(b) : b \in bodies}] : ps \in SUBSET paths}
OptVersions == Opt(Versions)

\* the exploration bound on revision histories
RevBound ==
    \A p \in DOMAIN projects : \A k \in DOMAIN projects[p].packages :
        Len(projects[p].packages[k].revisions) <= MaxRevs

\* the revisions of the whole registry, for the exploration bound of the
\* specifications with two packages
TotalRevs ==
    LET lens == [k \in PackageNames |->
                    IF HasPackage("prj", k)
                    THEN Len(Package("prj", k).revisions) ELSE 0]
    IN lens["pkg"] + lens["brn"]

Init ==
    /\ projects = EmptyMap
    /\ poisoned = FALSE
    /\ resp = Done("start", None)
    /\ handshake = HandshakeIdle
    /\ reader = ReaderIdle
    /\ monitor = MonitorIdle
    /\ lock = LockFree
    /\ threads = [t \in Threads |-> ThreadIdle]

\* The whole registry: an origin package, a branched package, and every
\* mutating operation.
Next ==
    /\ \/ \E p \in ProjectNames : add_project(p)
       \/ \E p \in ProjectNames : add_new_package(p, "pkg", "s1")
       \/ \E p \in ProjectNames :
             add_package_files(p, "pkg", [path |-> "a", contents |-> <<"x">>])
       \/ \E p \in ProjectNames, s \in Srcmd5s,
             e \in EntryMaps({"a"}, Bodies) :
             add_package_revision(p, "pkg", s, None, e)
       \/ \E p \in ProjectNames, x \in Srcmd5s, y \in Srcmd5s :
             branch(p, "pkg", p, "brn", x, y, "s1")
       \/ \E r \in PlacementRequests({ConfiguredAuth}, PackageNames,
                      {META_PATH, "a"}, {Some("repository")}, {<<"x">>}) :
             PackageSourcePlacementResponder(r, "s1")
       \/ \E r \in CommandRequests({ConfiguredAuth}, PackageNames,
                      {Some("commitfilelist")},
                      {Some(f) : f \in FileLists(Candidates({"a"}, Bodies), 1)}) :
             PackageSourceCommandResponder(r, "s1")
    /\ TotalRevs' <= MaxRevs + 1
    /\ UNCHANGED <<handshake, reader, monitor, lock, threads>>

Spec == Init /\ [][Next]_vars

\* One package and a client committing file lists to it.
BadCredentials == Credentials \ {ConfiguredAuth}

NextCommit ==
    /\ \/ \E p \in ProjectNames : add_project(p)
       \/ \E p \in ProjectNames :
             add_package_files(p, "pkg",
                               [path |-> META_PATH, contents |-> <<"x">>])
       \/ \E r \in PlacementRequests({ConfiguredAuth}, {"pkg"},
                      {META_PATH}, Opt({"repository"}), {<<"x">>})
                   \cup PlacementRequests({ConfiguredAuth}, {"pkg"},
                           {"a"}, Opt({"repository"}), Bodies)
                   \cup PlacementRequests(BadCredentials, {"pkg"}, {"a"},
                           {Some("repository")}, {<<"x">>}) :
             PackageSourcePlacementResponder(r, "s1")
       \/ \E r \in CommandRequests({ConfiguredAuth}, {"pkg"},
                      {Some("commitfilelist")},
                      Opt(FileLists(Candidates({META_PATH}, {<<"x">>})
                                      \cup Candidates({"a"}, Bodies),
                                    MaxFileList)))
                   \cup CommandRequests(Credentials, {"pkg"},
                           Opt({"commitfilelist", "diff"}), {None}) :
             PackageSourceCommandResponder(r, "s1")
       \/ \E r \in ListingRequests({ConfiguredAuth}, {"pkg"}, {None}, {None}) :
             PackageSourceListingResponder(r)
    /\ RevBound'
    /\ HandshakeStep
    /\ UNCHANGED <<reader, monitor, lock, threads>>

SpecCommit == Init /\ [][NextCommit]_vars

\* One package with a revision history, and every listing request.
NextListing ==
    /\ \/ \E p \in ProjectNames : add_project(p)
       \/ \E p \in ProjectNames, s \in Srcmd5s : add_new_package(p, "pkg", s)
       \/ \E p \in ProjectNames :
             add_package_files(p, "pkg", [path |-> "a", contents |-> <<"x">>])
       \/ \E p \in ProjectNames, s \in Srcmd5s,
             e \in EntryMaps({"a"}, {<<"x">>}) :
             add_package_revision(p, "pkg", s, None, e)
       \/ \E r \in ListingRequests({ConfiguredAuth}, {"pkg"}, Opt(RevArgs),
                                   Opt(MetaArgs))
                   \cup ListingRequests(Credentials, PackageNames, {None},
                                        {None}) :
             PackageSourceListingResponder(r)
    /\ RevBound'
    /\ UNCHANGED <<handshake, reader, monitor, lock, threads>>

SpecListing == Init /\ [][NextListing]_vars

\* Revisions of several versions, made by add_package_revision, by commits
\* and by a branch.
NextVrev ==
    /\ \/ \E p \in ProjectNames : add_project(p)
       \/ \E p \in ProjectNames : add_new_package(p, "pkg", "s1")
       \/ \E p \in ProjectNames :
             add_package_files(p, "pkg", [path |-> "a", contents |-> <<"x">>])
       \/ \E p \in ProjectNames, k \in PackageNames, v \in OptVersions,
             e \in EntryMaps({"a"}, {<<"x">>}) :
             add_package_revision(p, k, "s1", v, e)
       \/ \E p \in ProjectNames : branch(p, "pkg", p, "brn", "s1", "s2", "s1")
       \/ \E r \in CommandRequests({ConfiguredAuth}, PackageNames,
                      {Some("commitfilelist")},
                      {Some(f) : f \in FileLists(Candidates({"a"}, {<<"x">>}), 1)}) :
             PackageSourceCommandResponder(r, "s1")
    /\ TotalRevs' <= MaxRevs
    /\ UNCHANGED <<handshake, reader, monitor, lock, threads>>

SpecVrev == Init /\ [][NextVrev]_vars

\* Branches between every pair of packages, a package onto itself included.
NextBranch ==
    /\ \/ \E p \in ProjectNames : add_project(p)
       \/ \E p \in ProjectNames : add_new_package(p, "pkg", "s1")
       \/ \E p \in ProjectNames :
             add_package_files(p, "pkg", [path |-> "a", contents |-> <<"x">>])
       \/ \E p \in ProjectNames, s \in Srcmd5s,
             e \in EntryMaps({"a"}, {<<"x">>}) :
             add_package_revision(p, "pkg", s, None, e)
       \/ \E p \in ProjectNames, o \in PackageNames, d \in PackageNames,
             x \in Srcmd5s :
             branch(p, o, p, d, x, "s2", "s1")
    /\ TotalRevs' <= MaxRevs
    /\ UNCHANGED <<handshake, reader, monitor, lock, threads>>

SpecBranch == Init /\ [][NextBranch]_vars

\* The build result matrix of a project and the result listing.
BuildStatuses == {MockBuildStatus("building", FALSE), MockBuildStatus("broken", TRUE)}

NextResults ==
    /\ \/ \E p \in ProjectNames : add_project(p)
       \/ \E p \in ProjectNames, r \in RepoNames :
             add_or_update_repository(p, r, "x86", "building")
       \/ \E p \in ProjectNames :
             add_or_update_repository(p, "r1", "arm", "broken")
       \/ \E p \in ProjectNames, r \in RepoNames, a \in Arches,
             k \in PackageNames, st \in BuildStatuses :
             set_package_build_status(p, r, a, k, st)
       \/ \E r \in ResultsRequests({ConfiguredAuth},
                      QueryPairs({Pair("package", k) : k \in PackageNames}, 2))
                   \cup ResultsRequests(Credentials,
                           {<< >>, <<Pair("view", "status")>>}) :
             BuildResultsResponder(r)
    /\ UNCHANGED <<handshake, reader, monitor, lock, threads>>

SpecResults == Init /\ [][NextResults]_vars

\* One package's build log, every read of it, and a client streaming it.
LogText == SubSeq(<<"a", "b", "c", "d", "e">>, 1, MaxLog)
ChunkSizes == {None, Some(0), Some(2)}
NumberArgs == {t \in DOMAIN DecimalValue : DecimalValue[t] <= MaxLog + 1}

LogRequests(creds, packages, queries) ==
    {BuildRequest(a, p, "r1", "x86", k, q) :
        a \in creds, p \in ProjectNames, k \in packages, q \in queries}

LogQueries ==
    {<<Pair("start", t)>> : t \in NumberArgs \cup {"", "x"}}
    \cup {<<Pair("start", t), Pair("end", u)>> :
              t \in NumberArgs, u \in NumberArgs}
    \cup {<<Pair("end", u)>> : u \in NumberArgs \cup {"x"}}
    \cup {<< >>, <<Pair("lastsucceeded", "1")>>, <<Pair("view", "entry")>>,
          <<Pair("view", "")>>, <<Pair("last", "2")>>}

ReaderStep == ReaderNext /\ UNCHANGED <<handshake, monitor, lock, threads>>

NextLog ==
    \/ /\ \/ \E p \in ProjectNames : add_project(p)
          \/ \E p \in ProjectNames :
                add_or_update_repository(p, "r1", "x86", "building")
          \/ \E p \in ProjectNames, c \in ChunkSizes :
                add_completed_build_log(p, "r1", "x86", "pkg",
                                        MockBuildLog(LogText, c), FALSE)
          \/ \E p \in ProjectNames :
                add_completed_build_log(p, "r1", "x86", "pkg",
                                        MockBuildLog(<<"z">>, None), TRUE)
          \/ \E r \in LogRequests({ConfiguredAuth}, {"pkg"}, LogQueries)
                      \cup LogRequests(Credentials, PackageNames, {<< >>}) :
                BuildLogResponder(r)
       /\ reader' = ReaderIdle
       /\ UNCHANGED <<handshake, monitor, lock, threads>>
    \/ /\ \E offset \in 0..MaxLog, end \in Opt(0..(MaxLog + 1)) :
             ReaderStart(offset, end)
       /\ UNCHANGED <<handshake, monitor, lock, threads>>
    \/ ReaderStep

SpecLog == Init /\ [][NextLog]_vars

\* a stream that was started keeps being polled by its client
SpecLogFair == Init /\ [][NextLog]_vars /\ WF_vars(ReaderStep)

\* The packages of a project, their statuses in two repositories, and the
\* rebuild command.
BuildCommandRequests(creds, queries) ==
    {BuildRequest(a, p, "", "", "", q) :
        a \in creds, p \in ProjectNames, q \in queries}

RebuildQueries ==
    {<<Pair("cmd", "rebuild")>> \o q :
        q \in QueryPairs({Pair("package", k) : k \in PackageNames}, 2)}

NextRebuild ==
    /\ \/ \E p \in ProjectNames : add_project(p)
       \/ \E p \in ProjectNames, k \in PackageNames :
             add_new_package(p, k, "s1")
       \/ \E p \in ProjectNames, r \in RepoNames :
             add_or_update_repository(p, r, "x86", "building")
       \/ \E p \in ProjectNames, r \in RepoNames, k \in PackageNames :
             set_package_build_status(p, r, "x86", k,
                                      MockBuildStatus("failed", FALSE))
       \/ \E p \in ProjectNames :
             add_completed_build_log(p, "r1", "x86", "pkg",
                                     MockBuildLog(LogText, None), FALSE)
       \/ \E r \in BuildCommandRequests({ConfiguredAuth}, RebuildQueries)
                   \cup BuildCommandRequests(Credentials,
                           {<< >>, <<Pair("cmd", "wipe")>>,
                            <<Pair("cmd", "rebuild"), Pair("arch", "x86")>>,
                            <<Pair("cmd", "rebuild"), Pair("force", "1")>>}) :
             ProjectBuildCommandResponder(r)
    /\ UNCHANGED <<handshake, reader, monitor, lock, threads>>

SpecRebuild == Init /\ [][NextRebuild]_vars

\* A monitor run over every sequence of poll responses.
MonitoredCodes ==
    {"building", "succeeded", "failed", "excluded", "disabled", "unknown"}
ResultListResult(repository, arch, dirty, code) ==
    [repository |-> repository, arch |-> arch, dirty |-> dirty, code |-> code]
PollResults ==
    {ResultListResult(r, "x86", FALSE, c) : r \in RepoNames, c \in MonitoredCodes}
    \cup {ResultListResult(r, "x86", TRUE, "succeeded") : r \in RepoNames}
PollResponses ==
    {None} \cup {Some(results) :
                    results \in UNION {[1..n -> PollResults] : n \in 0..2}}

NextMonitor == \E response \in PollResponses : MonitorPoll(response)

SpecMonitor == Init /\ [][NextMonitor]_vars

\* One package, uploads to it by both routes, revisions over the uploaded
\* files, and every file fetch.
FileRequests(creds, packages, files) ==
    {Request(a, p, k, f, EmptyMap, None) :
        a \in creds, p \in ProjectNames, k \in packages, f \in files}

UploadedFiles ==
    {[path |-> "a", contents |-> b] : b \in Bodies}
        \cup {[path |-> "b", contents |-> <<"x">>]}

NextFiles ==
    /\ \/ \E p \in ProjectNames : add_project(p)
       \/ \E p \in ProjectNames : add_new_package(p, "pkg", "s1")
       \/ \E p \in ProjectNames :
             add_package_files(p, "pkg", [path |-> "a", contents |-> <<"x">>])
       \/ \E p \in ProjectNames, f \in UploadedFiles, s \in Srcmd5s :
             PackageSourcePlacementResponder(
                 Request(ConfiguredAuth, p, "pkg", f.path,
                         OptParam("rev", Some("repository")), f.contents), s)
       \/ \E p \in ProjectNames, e \in EntryMaps({"a", "b"}, Bodies) :
             /\ HasPackage(p, "pkg")
             /\ add_revision_assert(Package(p, "pkg"), e)
             /\ add_package_revision(p, "pkg", "s1", None, e)
       \/ \E r \in FileRequests({ConfiguredAuth}, PackageNames,
                                {META_PATH, "a", "b"})
                   \cup FileRequests(BadCredentials, {"pkg"}, {"a"}) :
             PackageSourceFileResponder(r)
    /\ RevBound'
    /\ UNCHANGED <<handshake, reader, monitor, lock, threads>>

SpecFiles == Init /\ [][NextFiles]_vars

\* The repositories of a project, the package statuses and logs in them,
\* and both listings of the repositories.
RepositoryCodes == {"building", "published"}

RepoListingRequests(creds) ==
    {BuildRequest(a, p, r, "", "", << >>) :
        a \in creds, p \in ProjectNames, r \in RepoNames}

NextRepos ==
    /\ \/ \E p \in ProjectNames : add_project(p)
       \/ \E p \in ProjectNames, r \in RepoNames, a \in Arches,
             c \in RepositoryCodes :
             /\ HasProject(p)
             /\ add_or_update_repository(p, r, a, c)
       \/ \E p \in ProjectNames, r \in RepoNames, a \in Arches,
             st \in BuildStatuses :
             /\ HasArch(p, r, a)
             /\ set_package_build_status(p, r, a, "pkg", st)
       \/ \E p \in ProjectNames :
             /\ HasArch(p, "r1", "x86")
             /\ add_completed_build_log(p, "r1", "x86", "pkg",
                                        MockBuildLog(<<"z">>, None), TRUE)
       \/ \E r \in RepoListingRequests(Credentials) : RepoListingResponder(r)
       \/ \E r \in RepoListingRequests(Credentials) : ArchListingResponder(r)
    /\ UNCHANGED <<handshake, reader, monitor, lock, threads>>

SpecRepos == Init /\ [][NextRepos]_vars

\* Concurrent requests on one package and one project under the registry
\* lock: commits and uploads, rebuilds, and the listings that read them.
LockedRequests(kind) ==
    IF kind = "command"
    THEN CommandRequests({ConfiguredAuth}, {"pkg"}, {Some("commitfilelist")},
             {Some(f) : f \in FileLists(Candidates({"a"}, Bodies), 1)})
    ELSE IF kind = "place"
    THEN PlacementRequests({ConfiguredAuth}, {"pkg"}, {"a"},
                           {Some("repository")}, {<<"y", "y">>})
    ELSE IF kind = "build_command"
    THEN BuildCommandRequests({ConfiguredAuth}, {<<Pair("cmd", "rebuild")>>})
    ELSE IF kind = "results"
    THEN ResultsRequests(Credentials, {<< >>})
    ELSE ListingRequests({ConfiguredAuth}, {"pkg"}, {None}, {None})

\* what every step of a handler thread leaves alone
ThreadFrame == UNCHANGED <<resp, handshake, reader, monitor>>

NextLocked ==
    /\ \/ /\ LibraryCall
          /\ \/ \E p \in ProjectNames : add_project(p)
             \/ \E p \in ProjectNames :
                   /\ HasProject(p) /\ ~HasPackage(p, "pkg")
                   /\ add_new_package(p, "pkg", "s1")
             \/ \E p \in ProjectNames :
                   /\ HasPackage(p, "pkg")
                   /\ add_package_files(p, "pkg",
                          [path |-> "a", contents |-> <<"x">>])
          /\ UNCHANGED <<handshake, reader, monitor>>
       \/ /\ ThreadFrame
          /\ \/ \E t \in Threads, kind \in {"command", "place", "listing"} :
                   \E request \in LockedRequests(kind) :
                       ThreadStart(t, kind, request)
             \/ \E t \in Threads : ThreadAcquire(t)
             \/ \E t \in Threads : CommitCheck(t)
             \/ \E t \in Threads : CommitCreate(t, "s2")
             \/ \E t \in Threads : CommitRespond(t)
             \/ \E t \in Threads : PlaceStep(t, "s1")
             \/ \E t \in Threads : ListingStep(t)
    /\ RevBound'

SpecLocked == Init /\ [][NextLocked]_vars

\* Concurrent rebuilds and result listings of one project.
NextLockedBuild ==
    \/ /\ LibraryCall
       /\ \/ \E p \in ProjectNames : add_project(p)
          \/ \E p \in ProjectNames :
                /\ HasProject(p) /\ ~HasPackage(p, "pkg")
                /\ add_new_package(p, "pkg", "s1")
          \/ \E p \in ProjectNames, r \in RepoNames :
                /\ HasProject(p)
                /\ add_or_update_repository(p, r, "x86", "building")
          \/ \E p \in ProjectNames :
                /\ HasArch(p, "r1", "x86")
                /\ set_package_build_status(p, "r1", "x86", "pkg",
                       MockBuildStatus("broken", FALSE))
       /\ UNCHANGED <<handshake, reader, monitor>>
    \/ /\ ThreadFrame
       /\ \/ \E t \in Threads, kind \in {"build_command", "results"} :
                \E request \in LockedRequests(kind) :
                    ThreadStart(t, kind, request)
          \/ \E t \in Threads : ThreadAcquire(t)
          \/ \E t \in Threads : RebuildValidate(t)
          \/ \E t \in Threads, ra \in RepoNames \X Arches : RebuildOne(t, ra)
          \/ \E t \in Threads : ResultsValidate(t)
          \/ \E t \in Threads, ra \in RepoNames \X Arches :
                ResultsReadOne(t, ra)

SpecLockedBuild == Init /\ [][NextLockedBuild]_vars

\* Every handler with the query strings and bodies it accepts and the ones
\* it does not, among them a parameter ("bogus") no operation defines.
Bogus == OptParam("bogus", Some("1"))

SourceQueries(name, values) ==
    {OptParam(name, v) : v \in Opt(values)}
        \cup {Merge(OptParam(name, Some(v)), Bogus) : v \in values}
        \cup {Bogus}

ValidatedPlacements ==
    {Request(ConfiguredAuth, p, k, f, q, <<"x">>) :
        p \in ProjectNames, k \in PackageNames, f \in {META_PATH, "a"},
        q \in SourceQueries("rev", {"repository", "upload"})}

ValidatedCommands ==
    {Request(ConfiguredAuth, p, "pkg", "", q, b) :
        p \in ProjectNames,
        q \in SourceQueries("cmd", {"commitfilelist", "diff"}),
        b \in Opt(FileLists(Candidates({"a"}, Bodies), 1))}

ValidatedBuildCommands ==
    BuildCommandRequests({ConfiguredAuth},
        {<< >>, <<Pair("cmd", "wipe")>>, <<Pair("cmd", "rebuild")>>,
         <<Pair("cmd", "rebuild"), Pair("package", "pkg")>>,
         <<Pair("cmd", "rebuild"), Pair("package", "brn")>>,
         <<Pair("cmd", "rebuild"), Pair("arch", "x86")>>,
         <<Pair("cmd", "rebuild"), Pair("bogus", "1")>>})

ValidatedReads(op) ==
    IF op \in {"listing", "file"}
    THEN {Request(ConfiguredAuth, p, "pkg",
                  IF op = "file" THEN "a" ELSE "", q, None) :
             p \in ProjectNames, q \in {EmptyMap, Bogus}}
    ELSE {BuildRequest(ConfiguredAuth, p, "r1", "x86", "pkg", q) :
             p \in ProjectNames, q \in {<< >>, <<Pair("bogus", "1")>>}}

\* the same requests sent with credentials that do not match
Unauthenticated(requests) ==
    {[r EXCEPT !.auth = a] : r \in requests, a \in BadCredentials}

WithUnauthenticated(requests) == requests \cup Unauthenticated(requests)

NextValidate ==
    /\ \/ \E p \in ProjectNames : add_project(p)
       \/ \E p \in ProjectNames :
             /\ HasProject(p) /\ ~HasPackage(p, "pkg")
             /\ add_new_package(p, "pkg", "s1")
       \/ \E p \in ProjectNames :
             /\ HasProject(p)
             /\ add_or_update_repository(p, "r1", "x86", "building")
       \/ \E p \in ProjectNames :
             /\ HasArch(p, "r1", "x86")
             /\ add_completed_build_log(p, "r1", "x86", "pkg",
                                        MockBuildLog(LogText, None), TRUE)
       \/ \E r \in WithUnauthenticated(ValidatedPlacements) : PackageSourcePlacementResponder(r, "s2")
       \/ \E r \in WithUnauthenticated(ValidatedCommands) : PackageSourceCommandResponder(r, "s2")
       \/ \E r \in WithUnauthenticated(ValidatedBuildCommands) : ProjectBuildCommandResponder(r)
       \/ \E r \in WithUnauthenticated(ValidatedReads("listing")) : PackageSourceListingResponder(r)
       \/ \E r \in WithUnauthenticated(ValidatedReads("file")) : PackageSourceFileResponder(r)
       \/ \E r \in WithUnauthenticated(ValidatedReads("repos")) : RepoListingResponder(r)
       \/ \E r \in WithUnauthenticated(ValidatedReads("arches")) : ArchListingResponder(r)
       \/ \E r \in WithUnauthenticated(ValidatedReads("results")) : BuildResultsResponder(r)
       \/ \E r \in WithUnauthenticated(ValidatedReads("log")) : BuildLogResponder(r)
    /\ TotalRevs' <= MaxRevs
    /\ UNCHANGED <<handshake, reader, monitor, lock, threads>>

SpecValidate == Init /\ [][NextValidate]_vars

\* Two packages of one (repository, architecture): their statuses, the logs
\* set on them, successful or not, and the reads of those logs.
SetLogs ==
    {MockBuildLog(LogText, None), MockBuildLog(LogText, Some(2)),
     MockBuildLog(<<"z">>, None)}
SetLogQueries ==
    {<< >>, <<Pair("lastsucceeded", "1")>>, <<Pair("lastsucceeded", "0")>>,
     <<Pair("view", "entry")>>,
     <<Pair("lastsucceeded", "1"), Pair("view", "entry")>>}

NextSetLog ==
    /\ \/ \E p \in ProjectNames : add_project(p)
       \/ \E p \in ProjectNames :
             add_or_update_repository(p, "r1", "x86", "building")
       \/ \E p \in ProjectNames, k \in PackageNames, st \in BuildStatuses :
             set_package_build_status(p, "r1", "x86", k, st)
       \/ \E p \in ProjectNames, k \in PackageNames, log \in SetLogs,
             success \in BOOLEAN :
             add_completed_build_log(p, "r1", "x86", k, log, success)
       \/ \E r \in LogRequests({ConfiguredAuth}, PackageNames, SetLogQueries) :
             BuildLogResponder(r)
    /\ UNCHANGED <<handshake, reader, monitor, lock, threads>>

SpecSetLog == Init /\ [][NextSetLog]_vars

\* A monitor left running over every sequence of poll responses, dirty or
\* not, with what each poll received.
ObservedCodes == {"building", "succeeded", "excluded", "unknown"}
ObservedResults ==
    {ResultListResult(r, "x86", d, c) :
        r \in RepoNames, d \in BOOLEAN, c \in ObservedCodes}
ObservedResponses ==
    {None} \cup {Some(results) :
                    results \in UNION {[1..n -> ObservedResults] : n \in 0..2}}

NextObserved == \E response \in ObservedResponses : MonitorLoop(response)

SpecObserved == Init /\ [][NextObserved]_vars

\* The same monitor over results that are final or not, dirty or not; it
\* polls again after each sleep.
TerminationResults ==
    {ResultListResult(r, "x86", d, c) :
        r \in RepoNames, d \in BOOLEAN, c \in {"building", "succeeded"}}
TerminationResponses ==
    {None} \cup {Some(results) :
                    results \in UNION {[1..n -> TerminationResults] :
                                          n \in 0..2}}
NextTermination == \E response \in TerminationResponses : MonitorLoop(response)

SpecTermination == Init /\ [][NextTermination]_vars /\ WF_vars(NextTermination)

\* Uploads of two bodies under two paths and the metadata path, with and
\* without rev=repository, and the commits that reference them.
NextPlace ==
    /\ \/ \E p \in ProjectNames : add_project(p)
       \/ \E p \in ProjectNames : add_new_package(p, "pkg", "s1")
       \/ \E r \in PlacementRequests(Credentials, {"pkg"},
                      {META_PATH, "a", "b"}, Opt({"repository"}), Bodies)
                   \cup PlacementRequests({ConfiguredAuth}, {"brn"}, {"a"},
                           {Some("repository")}, {<<"x">>}) :
             PackageSourcePlacementResponder(r, "s1")
       \/ \E r \in CommandRequests({ConfiguredAuth}, {"pkg"},
                      {Some("commitfilelist")},
                      {Some(f) : f \in FileLists(
                                          Candidates({"a", "b"}, {<<"x">>}),
                                          MaxFileList)}) :
             PackageSourceCommandResponder(r, "s2")
    /\ TotalRevs' <= MaxRevs - 2
    /\ UNCHANGED <<handshake, reader, monitor, lock, threads>>

SpecPlace == Init /\ [][NextPlace]_vars

\* ================================================================== claims
\* r is the response to an authorized commitfilelist request, with a body
\* that parsed, on a package that exists in the registry state `ps`
IsCommitOn(r, ps) ==
    /\ r.op = "command" /\ r.req # None
    /\ r.req.project \in DOMAIN ps
    /\ r.req.package \in DOMAIN ps[r.req.project].packages
    /\ find_query_param(r.req, "cmd") = Some("commitfilelist")
    /\ r.req.body # None

FileListOf(r) == Unwrap(r.req.body)
StoreOf(r, ps) == DOMAIN ps[r.req.project].packages[r.req.package].files
KeyOf(req_entry) == MockSourceFileKey(req_entry.name, req_entry.md5)
AbsentIn(r, ps) ==
    {FileListOf(r)[i] : i \in {j \in 1..Len(FileListOf(r)) :
                                  KeyOf(FileListOf(r)[j]) \notin StoreOf(r, ps)}}

\* the listing a client gets for GET /source/<project>/<package>
LatestListing(project, package) ==
    listing_response(Request(ConfiguredAuth, project, package, "", EmptyMap, None))

\* the md5 the file list gives for a name (its last entry of that name)
CommittedMd5(filelist, name) ==
    LET i == CHOOSE j \in 1..Len(filelist) :
                 /\ filelist[j].name = name
                 /\ \A k \in (j + 1)..Len(filelist) : filelist[k].name # name
    IN filelist[i].md5

\* d is a directory showing exactly the names of filelist, each with the md5
\* the file list gives it
ShowsFileList(d, filelist) ==
    /\ {e.name : e \in d.entries} = {filelist[i].name : i \in 1..Len(filelist)}
    /\ \A e \in d.entries : e.md5 = CommittedMd5(filelist, e.name)
    /\ Cardinality(d.entries) =
           Cardinality({filelist[i].name : i \in 1..Len(filelist)})

\* C1: a commitfilelist request with at least one candidate (name, md5)
\* absent from the package's content store answers "missing", creates no
\* revision and leaves the whole package (content store, source and metadata
\* revisions, vrev counters) unchanged, so the listing without a revision
\* argument is the same before and after.
C1_CommitWithMissingChangesNothing ==
    [][\A p \in ProjectNames, k \in PackageNames :
        (/\ IsCommitOn(resp', projects)
         /\ resp'.req.project = p /\ resp'.req.package = k
         /\ AbsentIn(resp', projects) # {})
        => /\ resp'.status = "Ok" /\ resp'.code = "missing"
           /\ projects' = projects
           /\ LatestListing(p, k)' = LatestListing(p, k)]_vars

C1_Witness ==
    /\ IsCommitOn(resp, projects)
    /\ resp.code = "missing"
    /\ Len(Package(resp.req.project, resp.req.package).revisions) >= 1
    /\ Len(resp.body.entries) < Len(FileListOf(resp))

HandshakeRetryAccepted ==
    /\ resp.status = "Ok" /\ resp.code = "directory"
    /\ ShowsFileList(resp.body, FileListOf(resp))

C3_AsStated == handshake.phase = "retried" => HandshakeRetryAccepted

\* C3 amended: the same, for a commit whose missing entries M name no
\* _meta file (a PUT to the path _meta never stores its body).
MissingNames(h) == {h.missing[i].name : i \in 1..Len(h.missing)}

C3_HandshakeRetryAccepted ==
    (handshake.phase = "retried" /\ META_PATH \notin MissingNames(handshake))
        => HandshakeRetryAccepted

C3_Witness ==
    /\ handshake.phase = "retried"
    /\ META_PATH \notin MissingNames(handshake)
    /\ Len(handshake.missing) = 2
    /\ handshake.missing[1] # handshake.missing[2]
    /\ resp.code = "directory"

\* C4: the MissingEntries answer of a commit lists exactly the candidates
\* absent from the content store: every absent one, and no present one.
C4_MissingListsExactlyTheAbsent ==
    (IsCommitOn(resp, projects) /\ resp.code = "missing")
        => {resp.body.entries[i] : i \in 1..Len(resp.body.entries)}
               = AbsentIn(resp, projects)

C4_Witness ==
    /\ IsCommitOn(resp, projects)
    /\ resp.code = "missing"
    /\ Len(resp.body.entries) = 1
    /\ Len(FileListOf(resp)) = 2
    /\ FileListOf(resp)[1] # FileListOf(resp)[2]

\* r is the answer to an authorized listing request, with a well-formed
\* meta parameter, on a package that exists
IsListing(r) ==
    /\ r.op = "list" /\ r.req # None
    /\ HasPackage(r.req.project, r.req.package)
    /\ list_meta_of(r.req) # None

ListedPackage(r) == Package(r.req.project, r.req.package)
WantsMeta(r) == Unwrap(list_meta_of(r.req))
RevArg(r) == find_query_param(r.req, "rev")
\* the explicit revision index of the request, when it has a numeric one
HasIndex(r) == RevArg(r) # None /\ parse_usize(Unwrap(RevArg(r))) # None
IndexOf(r) == Unwrap(parse_usize(Unwrap(RevArg(r))))
Last(seq) == seq[Len(seq)]

\* C6: whatever the number of source revisions, a source listing with
\* revision 0 answers the fixed empty-tree checksum and no entries, and a
\* source listing with a revision above the number of source revisions is
\* a BadRequest.
C6_ZeroRevisionAndOutOfRange ==
    (IsListing(resp) /\ ~WantsMeta(resp) /\ HasIndex(resp))
        => /\ IndexOf(resp) = 0
                => /\ resp.status = "Ok"
                   /\ resp.body.srcmd5 = ZERO_REV_SRCMD5
                   /\ resp.body.entries = {}
           /\ IndexOf(resp) > Len(ListedPackage(resp).revisions)
                => resp.status = "BadRequest"

C6_Witness ==
    /\ IsListing(resp) /\ ~WantsMeta(resp) /\ HasIndex(resp)
    /\ IndexOf(resp) = 0
    /\ Len(ListedPackage(resp).revisions) = 2
    /\ resp.body.srcmd5 = ZERO_REV_SRCMD5

C6_WitnessOutOfRange ==
    /\ IsListing(resp) /\ ~WantsMeta(resp) /\ HasIndex(resp)
    /\ IndexOf(resp) = Len(ListedPackage(resp).revisions) + 1
    /\ resp.status = "BadRequest"

\* C7 as stated: a listing without a revision argument answers the latest
\* revision of the selected stream: the last source revision (rev = number
\* of source revisions) for a source listing, the last metadata revision
\* for a metadata listing, however many source revisions there are.
ShowsRevision(r, package, rev) ==
    /\ r.status = "Ok" /\ r.code = "directory"
    /\ r.body.srcmd5 = rev.srcmd5
    /\ r.body.vrev = rev.vrev
    /\ {e.name : e \in r.body.entries} = DOMAIN rev.entries
    /\ \A e \in r.body.entries : e.md5 = rev.entries[e.name]

C7_LatestOfSelectedStream ==
    (IsListing(resp) /\ RevArg(resp) = None)
        => IF WantsMeta(resp)
           THEN ShowsRevision(resp, ListedPackage(resp),
                              Last(ListedPackage(resp).meta_revisions))
           ELSE Len(ListedPackage(resp).revisions) > 0
                   => /\ ShowsRevision(resp, ListedPackage(resp),
                                       Last(ListedPackage(resp).revisions))
                      /\ resp.body.rev =
                             Some(Len(ListedPackage(resp).revisions))

\* C8 as stated: a listing with an explicit non-zero index succeeds exactly
\* when 1 <= index <= length of the selected stream, and is a BadRequest
\* otherwise.
SelectedStream(r) ==
    IF WantsMeta(r) THEN ListedPackage(r).meta_revisions
    ELSE ListedPackage(r).revisions

C8_IndexWithinSelectedStream ==
    (IsListing(resp) /\ HasIndex(resp) /\ IndexOf(resp) # 0)
        => IF IndexOf(resp) <= Len(SelectedStream(resp))
           THEN resp.status = "Ok"
           ELSE resp.status = "BadRequest"

\* C9: in every package the vrev of a source revision is its rank among the
\* revisions of the same version: the k-th revision without a version has
\* vrev k, the first revision of a new version has vrev 1, and the counters
\* of different versions do not touch each other.
RankInVersion(revisions, i) ==
    Cardinality({j \in 1..i : revisions[j].version = revisions[i].version})

C9_VrevCountsPerVersion ==
    \A p \in DOMAIN projects : \A k \in DOMAIN projects[p].packages :
        LET revisions == projects[p].packages[k].revisions
        IN \A i \in 1..Len(revisions) :
               revisions[i].vrev = Some(RankInVersion(revisions, i))

C9_Witness ==
    /\ HasPackage("prj", "pkg")
    /\ LET revisions == Package("prj", "pkg").revisions
       IN /\ Len(revisions) = 3
          /\ revisions[1].version = None /\ revisions[1].vrev = Some(1)
          /\ revisions[2].version = Some("v1") /\ revisions[2].vrev = Some(1)
          /\ revisions[3].version = None /\ revisions[3].vrev = Some(2)
          /\ resp.op = "command"

\* C5: in every reachable state every entry (path, md5) of every source and
\* metadata revision of every package is a key of that package's content
\* store: no listing or fetch lookup misses, and the assertion of
\* add_revision never fails on the commit path.
C5_EntriesAreStored ==
    /\ \A p \in DOMAIN projects : \A k \in DOMAIN projects[p].packages :
           LET package == projects[p].packages[k]
           IN /\ \A i \in 1..Len(package.revisions) :
                     ~source_listing_panics(package, package.revisions[i])
              /\ \A i \in 1..Len(package.meta_revisions) :
                     ~source_listing_panics(package, package.meta_revisions[i])
    /\ resp.op = "command" => resp.status # "panic"

C5_Witness ==
    /\ HasPackage("prj", "pkg") /\ HasPackage("prj", "brn")
    /\ Len(Package("prj", "brn").revisions) = 2
    /\ Package("prj", "brn").revisions[1].entries # EmptyMap
    /\ Package("prj", "brn").revisions[2].entries # EmptyMap
    /\ Len(Package("prj", "pkg").revisions) = 2
    /\ resp.op = "command"

\* C10: after branch(origin, dest, checksum = X, link_checksum = Y) the
\* first source revision of dest has exactly one LinkInfo, which names the
\* origin project and package, has lsrcmd5 = X and xsrcmd5 = Y, and whose
\* srcmd5 and baserev are the srcmd5 of the origin's latest source revision
\* at the time of the branch.
C10_BranchLinkage ==
    [][\A p \in ProjectNames, o \in PackageNames, d \in PackageNames :
        (/\ resp'.op = "branch" /\ resp'.status = "done"
         /\ resp'.req.origin_project = p /\ resp'.req.origin_package = o
         /\ resp'.req.project = p /\ resp'.req.package = d)
        => LET origin == Package(p, o)
               dest == Package(p, d)'
               link == dest.revisions[1].linkinfo
           IN /\ Len(dest.revisions) = 1
              /\ Len(link) = 1
              /\ link[1].project = p /\ link[1].package = o
              /\ link[1].lsrcmd5 = resp'.req.srcmd5
              /\ link[1].xsrcmd5 = resp'.req.xsrcmd5
              /\ link[1].srcmd5 = Last(origin.revisions).srcmd5
              /\ link[1].baserev = Last(origin.revisions).srcmd5]_vars

C10_Witness ==
    /\ resp.op = "branch" /\ resp.status = "done"
    /\ resp.req.origin_package = "pkg" /\ resp.req.package = "brn"
    /\ resp.req.srcmd5 # resp.req.xsrcmd5
    /\ Len(Package("prj", "pkg").revisions) = 2
    /\ Package("prj", "pkg").revisions[1].srcmd5
          # Package("prj", "pkg").revisions[2].srcmd5
    /\ Package("prj", "brn").revisions[1].linkinfo[1].srcmd5
          # Package("prj", "brn").revisions[1].linkinfo[1].lsrcmd5

\* what a branch step from o to d of project p leaves behind
BranchCreates(p, o, d) ==
    LET origin == Package(p, o)
        dest == Package(p, d)'
        kc == into_key_and_contents(new_metadata(p, d))
    IN /\ Len(dest.revisions) = 1
       /\ dest.revisions[1].vrev = Some(1)
       /\ dest.revisions[1].srcmd5 = resp'.req.srcmd5
       /\ dest.revisions[1].entries = Last(origin.revisions).entries
       /\ Len(dest.meta_revisions) = 1
       /\ dest.meta_revisions[1].vrev = None
       /\ DOMAIN dest.files = DOMAIN origin.files \cup {kc.key}
       /\ dest.files[kc.key] = kc.contents
       /\ \A key \in DOMAIN origin.files \ {kc.key} :
              dest.files[key] = origin.files[key]
       /\ Package(p, o)' = origin

IsBranchStep(r, p, o, d) ==
    /\ r.op = "branch" /\ r.status = "done"
    /\ r.req.origin_project = p /\ r.req.origin_package = o
    /\ r.req.project = p /\ r.req.package = d

IsResults(r) ==
    /\ r.op = "results" /\ r.req # None
    /\ HasProject(r.req.project)
    /\ \A i \in 1..Len(r.req.pairs) : r.req.pairs[i].key = "package"

FilterOf(r) == SeqRange(pair_values(r.req.pairs, "package"))

\* C12: the result listing answers one result per (repository, architecture)
\* pair of the project, with its lifecycle code; without a package filter
\* each result carries the status of every package present in that
\* repo/arch, with a filter P exactly the statuses of the packages named in
\* P, and the whole call is NotFound when some name of P has no entry in
\* some repo/arch.
C12_ResultListing ==
    IsResults(resp) =>
        LET prj == resp.req.project
            P == FilterOf(resp)
        IN IF \E ra \in RepoArches(prj) : \E name \in P :
                  name \notin DOMAIN Repository(prj, ra[1], ra[2]).packages
           THEN resp.status = "NotFound"
           ELSE /\ resp.status = "Ok"
                /\ {<<x.repository, x.arch>> : x \in resp.body} = RepoArches(prj)
                /\ Cardinality(resp.body) = Cardinality(RepoArches(prj))
                /\ \A x \in resp.body :
                       LET repo == Repository(prj, x.repository, x.arch)
                           shown == IF P = {} THEN DOMAIN repo.packages ELSE P
                       IN /\ x.code = repo.code
                          /\ x.statuses =
                                 {[package |-> n,
                                   code |-> repo.packages[n].status.code,
                                   dirty |-> repo.packages[n].status.dirty] :
                                     n \in shown}

C12_Witness ==
    /\ IsResults(resp) /\ resp.status = "Ok"
    /\ FilterOf(resp) = {"brn"}
    /\ Cardinality(resp.body) = 2
    /\ \E x \in resp.body :
           DOMAIN Repository("prj", x.repository, x.arch).packages
               = {"pkg", "brn"}
    /\ \A x \in resp.body : Cardinality(x.statuses) = 1

C12_WitnessNotFound ==
    /\ IsResults(resp) /\ resp.status = "NotFound"
    /\ \E ra \in RepoArches("prj") :
           FilterOf(resp) \subseteq
               DOMAIN Repository("prj", ra[1], ra[2]).packages

\* r is the answer to an authorized content read of a package's log, with
\* well-formed parameters
IsLogRead(r) ==
    /\ r.op = "log" /\ r.req # None
    /\ \A i \in 1..Len(r.req.pairs) : ~log_pair_rejected(r.req.pairs[i])
    /\ \A i \in 1..Len(r.req.pairs) : r.req.pairs[i].key # "view"
    /\ HasArch(r.req.project, r.req.repo, r.req.arch)
    /\ r.req.package \in
           DOMAIN Repository(r.req.project, r.req.repo, r.req.arch).packages

\* the log a read selects, as an option
LogOf(r) ==
    LET package == Repository(r.req.project, r.req.repo, r.req.arch)
                       .packages[r.req.package]
    IN IF last_pair_value(r.req.pairs, "lastsucceeded") = Some("1")
       THEN package.latest_successful_log ELSE package.latest_log
ContentsOf(log) == IF IsSome(log) THEN Unwrap(log).contents ELSE << >>
ChunkOf(log) == IF IsSome(log) THEN Unwrap(log).chunk_size ELSE None
StartOf(r) ==
    LET arg == last_pair_value(r.req.pairs, "start")
    IN IF IsSome(arg) THEN DecimalValue[Unwrap(arg)] ELSE 0
EndOf(r) ==
    LET arg == last_pair_value(r.req.pairs, "end")
    IN IF IsSome(arg) THEN Some(DecimalValue[Unwrap(arg)]) ELSE None
Min(a, b) == IF a < b THEN a ELSE b
\* min(e or L, L, s + C), without the s + C bound when there is no chunk size
RangeEnd(L, C, s, e) ==
    LET upto == Min(IF IsSome(e) THEN Unwrap(e) ELSE L, L)
    IN IF IsSome(C) THEN Min(upto, s + Unwrap(C)) ELSE upto

\* C13 as stated: for a log of length L with optional chunk size C, a
\* content read with start = s and optional end = e answers exactly the
\* bytes [s, min(e or L, L, s + C)), and a read with s > L is a BadRequest.
C13_LogRangeClamping ==
    IsLogRead(resp) =>
        LET contents == ContentsOf(LogOf(resp))
            s == StartOf(resp)
        IN IF s > Len(contents) THEN resp.status = "BadRequest"
           ELSE /\ resp.status = "Ok"
                /\ resp.body =
                       SubSeq(contents, s + 1,
                              RangeEnd(Len(contents), ChunkOf(LogOf(resp)),
                                       s, EndOf(resp)))

\* the log the streaming client reads, as an option
ReaderLog ==
    IF HasArch("prj", "r1", "x86")
       /\ "pkg" \in DOMAIN Repository("prj", "r1", "x86").packages
    THEN Repository("prj", "r1", "x86").packages["pkg"].latest_log
    ELSE None

\* min(e or L, L) for the stream
ReaderTarget ==
    LET L == Len(ContentsOf(ReaderLog))
    IN Min(IF IsSome(reader.end) THEN Unwrap(reader.end) ELSE L, L)

RECURSIVE Concat(_)
Concat(chunks) ==
    IF Len(chunks) = 0 THEN << >>
    ELSE chunks[1] \o Concat(Tail(chunks))

\* a stream over a log with chunk size C >= 1 that started at s <= min(e, L)
ReadThroughCase ==
    /\ reader.phase # "idle"
    /\ IsSome(ReaderLog)
    /\ IsSome(ChunkOf(ReaderLog)) /\ Unwrap(ChunkOf(ReaderLog)) >= 1
    /\ reader.start <= ReaderTarget

ReadThroughExact ==
    /\ reader.phase # "failed"
    /\ \A i \in 1..Len(reader.chunks) :
           /\ Len(reader.chunks[i]) >= 1
           /\ Len(reader.chunks[i]) <= Unwrap(ChunkOf(ReaderLog))
    /\ Concat(reader.chunks) =
           SubSeq(ContentsOf(ReaderLog), reader.start + 1, reader.offset)
    /\ reader.offset <= ReaderTarget
    /\ reader.phase = "done" => reader.offset = ReaderTarget

\* C14: for a log of length L with chunk size C >= 1, a client that starts
\* at s <= min(e, L) and keeps reading from the offset advanced by the
\* bytes just received gets chunks of at most C bytes whose concatenation
\* is the log bytes [s, min(e or L, L)), and its stream ends after finitely
\* many reads.
C14_ChunkedReadThrough ==
    /\ [](ReadThroughCase => ReadThroughExact)
    /\ (reader.phase = "reading") ~> (reader.phase # "reading")

C14_Witness ==
    /\ ReadThroughCase
    /\ reader.phase = "done"
    /\ reader.start = 0 /\ reader.end = None
    /\ Len(reader.chunks) = 2
    /\ Len(reader.chunks[2]) < Len(reader.chunks[1])
    /\ reader.offset = Len(ContentsOf(ReaderLog))

\* r is the answer to an authorized rebuild command, with no other query
\* parameter than package names, on a project that exists in `ps`
IsRebuildOn(r, ps) ==
    /\ r.op = "build_command" /\ r.req # None
    /\ r.req.project \in DOMAIN ps
    /\ find_query_pair(r.req, "cmd") = Some("rebuild")
    /\ rebuild_rejected_pair(r.req.pairs) = None

RebuildNames(r) == SeqRange(pair_values(r.req.pairs, "package"))

\* C15: a rebuild command naming at least one package that is not a package
\* of the project is NotFound and leaves the registry, and so the status and
\* the existence of every package entry of every repo/arch, unchanged,
\* wherever the unknown name stands in the list.
C15_RebuildAllOrNothing ==
    [][\A p \in ProjectNames :
        (/\ IsRebuildOn(resp', projects) /\ resp'.req.project = p
         /\ \E n \in RebuildNames(resp') : n \notin DOMAIN projects[p].packages)
        => /\ resp'.status = "NotFound"
           /\ projects'[p].repos = projects[p].repos
           /\ projects' = projects]_vars

C15_Witness ==
    /\ IsRebuildOn(resp, projects) /\ resp.status = "NotFound"
    /\ pair_values(resp.req.pairs, "package") = <<"pkg", "brn">>
    /\ DOMAIN projects["prj"].packages = {"pkg"}
    /\ HasArch("prj", "r1", "x86") /\ HasArch("prj", "r2", "x86")
    /\ DOMAIN Repository("prj", "r1", "x86").packages = {"pkg"}
    /\ Repository("prj", "r1", "x86").packages["pkg"].status.code = "failed"
    /\ DOMAIN Repository("prj", "r2", "x86").packages = {}

C15_WitnessRebuilt ==
    /\ IsRebuildOn(resp, projects) /\ resp.status = "Ok"
    /\ HasArch("prj", "r1", "x86")
    /\ "pkg" \in DOMAIN Repository("prj", "r1", "x86").packages
    /\ Repository("prj", "r1", "x86").packages["pkg"].status = rebuild_status

\* every tracked pair's stored code is final
AllStoredFinal(m) == \A i \in 1..Len(m.last) : m.last[i].code \in FinalCodes
AllStoredExcluded(m) ==
    \A i \in 1..Len(m.last) : m.last[i].code \in {"excluded", "disabled"}

\* C16: over any sequence of successful poll responses the monitor stops
\* exactly at the first poll after which every tracked pair's stored code is
\* final: every step of a run is one more poll, a poll ends the run if and
\* only if all stored codes are final after it, no poll follows the end, and
\* when all stored codes are then Excluded or Disabled the outcome is the
\* excluded failure, whatever earlier polls showed.
C16_MonitorStopsAtFirstFinalPoll ==
    [][monitor' # monitor =>
        /\ monitor.phase \in {"idle", "polling"}
        /\ monitor'.polls = monitor.polls + 1
        /\ monitor.phase = "polling" => ~AllStoredFinal(monitor)
        /\ monitor'.phase # "failed" =>
              /\ monitor'.phase = "done" <=> AllStoredFinal(monitor')
              /\ (monitor'.phase = "done" /\ AllStoredExcluded(monitor'))
                    => monitor'.outcome = Some("excluded")]_vars

C16_Witness ==
    /\ monitor.phase = "done" /\ monitor.polls = 3
    /\ Len(monitor.last) = 2
    /\ monitor.outcome = Some("excluded")

\* C17: when the loop has ended, the outcome is the excluded failure if
\* every tracked pair's stored code is Excluded or Disabled, otherwise the
\* build failure if some stored code is Failed, otherwise success.
C17_MonitorOutcome ==
    monitor.phase = "done" =>
        monitor.outcome =
            Some(IF AllStoredExcluded(monitor) THEN "excluded"
                 ELSE IF \E i \in 1..Len(monitor.last) :
                            monitor.last[i].code = "failed"
                 THEN "build failure"
                 ELSE "success")

C17_Witness ==
    /\ monitor.phase = "done" /\ monitor.polls = 2
    /\ Len(monitor.last) = 2
    /\ monitor.last[1].code = "excluded" /\ monitor.last[2].code = "failed"
    /\ monitor.outcome = Some("build failure")

\* ---------------------------------------------------------------------- C18
\* r is the answer to an accepted upload of the bytes b to the path of
\* package "pkg" of project p, by add_package_files or by the PUT handler
IsUpload(r, p, path, b) ==
    \/ /\ r.op = "add_package_files" /\ r.status = "done"
       /\ r.req.project = p /\ r.req.package = "pkg"
       /\ r.req.key.path = path /\ r.req.key.md5 = Md5(b)
    \/ /\ r.op = "place" /\ r.status = "Ok" /\ r.code = "revision"
       /\ r.req.project = p /\ r.req.package = "pkg"
       /\ r.req.file = path /\ r.req.body = b

\* C18: an upload stores the bytes under (path, checksum of the bytes), a
\* checksum that depends on the bytes alone, and creates no source or
\* metadata revision; an upload of bytes that are already stored under the
\* path leaves the content store, and the whole registry, as it was.
C18_IdempotentUpload ==
    [][\A p \in ProjectNames, path \in {"a", "b"}, b \in Bodies :
          (HasPackage(p, "pkg") /\ IsUpload(resp', p, path, b)) =>
              LET key == MockSourceFileKey(path, Md5(b))
              IN /\ key \in DOMAIN Package(p, "pkg")'.files
                 /\ Package(p, "pkg")'.files[key] = b
                 /\ resp'.op = "add_package_files" => resp'.req.key = key
                 /\ Package(p, "pkg")'.revisions = Package(p, "pkg").revisions
                 /\ Package(p, "pkg")'.meta_revisions
                        = Package(p, "pkg").meta_revisions
                 /\ key \in DOMAIN Package(p, "pkg").files =>
                        projects' = projects]_vars

\* a second upload: "a" with the bytes x is uploaded again after a revision
\* that already refers to the stored (a, md5 of x)
C18_Witness ==
    /\ ~poisoned
    /\ IsUpload(resp, "prj", "a", <<"x">>)
    /\ resp.op = "place"
    /\ HasPackage("prj", "pkg")
    /\ Len(Package("prj", "pkg").revisions) = 1
    /\ "a" \in DOMAIN Package("prj", "pkg").revisions[1].entries
    /\ Package("prj", "pkg").revisions[1].entries["a"] = Md5(<<"x">>)
    /\ Len(Package("prj", "pkg").meta_revisions) = 1

\* ---------------------------------------------------------------------- C19
\* the answer a file fetch must give in the current registry
FetchExpected(r) ==
    LET package == Package(r.req.project, r.req.package)
        files == package.files
        meta_rev == package.meta_revisions[Len(package.meta_revisions)]
        rev == package.revisions[Len(package.revisions)]
    IN IF ~HasPackage(r.req.project, r.req.package)
       THEN r.status = "NotFound"
       ELSE IF r.req.file = META_PATH
            THEN /\ r.status = "Ok"
                 /\ r.body = files[MockSourceFileKey(META_PATH,
                                       meta_rev.entries[META_PATH])]
       ELSE IF Len(package.revisions) = 0
            THEN r.status = "NotFound"
       ELSE IF r.req.file \notin DOMAIN rev.entries
            THEN r.status = "NotFound"
       ELSE /\ r.status = "Ok"
            /\ r.body = files[MockSourceFileKey(r.req.file,
                                                rev.entries[r.req.file])]

\* C19: a fetch of _meta returns the bytes of the _meta entry of the latest
\* metadata revision; a fetch of another path returns the bytes stored
\* under (path, md5) of the path's entry in the latest source revision; an
\* unknown package, a path without an entry in the latest source revision
\* (uploaded or not) and a package without source revisions give NotFound.
C19_SourceFileFetch ==
    (~poisoned /\ resp.op = "file" /\ resp.status # "Unauthorized")
        => FetchExpected(resp)

\* "a" is fetched with the bytes x of the latest revision's entry while the
\* store also holds later uploaded bytes y for "a"
C19_Witness ==
    /\ ~poisoned /\ resp.op = "file" /\ resp.status = "Ok"
    /\ resp.req.file = "a" /\ resp.body = <<"x">>
    /\ MockSourceFileKey("a", Md5(<<"y", "y">>))
           \in DOMAIN Package("prj", "pkg").files
    /\ Len(Package("prj", "pkg").revisions) = 2

\* "b" is uploaded but the latest source revision has no entry for it
C19_WitnessUnreferenced ==
    /\ ~poisoned /\ resp.op = "file" /\ resp.status = "NotFound"
    /\ resp.req.file = "b" /\ resp.req.package = "pkg"
    /\ HasPackage("prj", "pkg")
    /\ MockSourceFileKey("b", Md5(<<"x">>))
           \in DOMAIN Package("prj", "pkg").files
    /\ Len(Package("prj", "pkg").revisions) = 1

\* _meta is fetched from a package without source revisions
C19_WitnessMeta ==
    /\ ~poisoned /\ resp.op = "file" /\ resp.status = "Ok"
    /\ resp.req.file = META_PATH
    /\ Len(Package("prj", "pkg").revisions) = 0
    /\ resp.body = new_metadata("prj", "pkg").contents

\* ---------------------------------------------------------------------- C20
\* the names of a listing answer, and that each is listed once
Listed(r) == {r.body[i] : i \in 1..Len(r.body)}
ListedOnce(r) == Cardinality(Listed(r)) = Len(r.body)

IsUpsert(r, p, repo, arch) ==
    /\ r.op = "add_or_update_repository" /\ r.status = "done"
    /\ r.req.project = p /\ r.req.repo = repo /\ r.req.arch = arch

\* the listings answer from the repositories the project holds
ListingsOfState ==
    /\ (~poisoned /\ resp.op = "repos" /\ resp.status # "Unauthorized") =>
           IF ~HasProject(resp.req.project) THEN resp.status = "NotFound"
           ELSE /\ resp.status = "Ok" /\ ListedOnce(resp)
                /\ Listed(resp)
                      = {ra[1] : ra \in RepoArches(resp.req.project)}
    /\ (~poisoned /\ resp.op = "arches" /\ resp.status # "Unauthorized") =>
           IF ~HasRepo(resp.req.project, resp.req.repo)
           THEN resp.status = "NotFound"
           ELSE /\ resp.status = "Ok" /\ ListedOnce(resp)
                /\ Listed(resp)
                      = {ra[2] : ra \in {x \in RepoArches(resp.req.project) :
                                            x[1] = resp.req.repo}}

\* C20: a project holds exactly the (repository, architecture) pairs that
\* were upserted: it starts with none, an upsert adds its pair and no other
\* step changes them; the repository listing names each repository of the
\* pairs once and the architecture listing of a repository names its
\* architectures; an unknown project or repository gives NotFound.
C20_RepositoryListing ==
    /\ []ListingsOfState
    /\ [][\A p \in ProjectNames :
             IF ~HasProject(p)
             THEN HasProject(p)' => RepoArches(p)' = {}
             ELSE /\ HasProject(p)'
                  /\ \A repo \in RepoNames, arch \in Arches :
                        IF IsUpsert(resp', p, repo, arch)
                        THEN RepoArches(p)'
                                = RepoArches(p) \cup {<<repo, arch>>}
                        ELSE resp'.op # "add_or_update_repository" =>
                                RepoArches(p)' = RepoArches(p)]_vars

\* r1 was upserted for both architectures and r2 for one: the repository
\* listing names r1 once
C20_Witness ==
    /\ ~poisoned /\ resp.op = "repos" /\ resp.status = "Ok"
    /\ RepoArches("prj") = {<<"r1", "x86">>, <<"r1", "arm">>, <<"r2", "arm">>}
    /\ Len(resp.body) = 2

\* the architecture listing of a repository that was never upserted
C20_WitnessUnknownRepo ==
    /\ ~poisoned /\ resp.op = "arches" /\ resp.status = "NotFound"
    /\ HasProject("prj") /\ resp.req.repo = "r2"
    /\ RepoArches("prj") = {<<"r1", "x86">>}

\* ---------------------------------------------------------------------- C21
\* thread t has answered a commit with the listing of a new revision
Accepted(t) ==
    /\ threads[t].pc = "done" /\ threads[t].kind = "command"
    /\ Unwrap(threads[t].response).status = "Ok"
    /\ Unwrap(threads[t].response).code = "directory"

\* thread t has appended its revision (and may not have answered yet)
Appended(t) == threads[t].pc = "pushed" \/ Accepted(t)

\* the step in which thread t creates its revision
Creates(t) == threads[t].pc = "create" /\ threads'[t].pc = "pushed"

\* the entries a commit request asks for, as a map
RequestedEntries(request) ==
    [n \in {Unwrap(request.body)[i].name : i \in 1..Len(Unwrap(request.body))}
        |-> CommittedMd5(Unwrap(request.body), n)]

\* an accepted commit's answer is the revision it appended itself: no two
\* accepted commits have the same revision number, and the numbered
\* revision holds the requested entries
AcceptedAreDistinct ==
    \A p \in ProjectNames :
        /\ \A t \in Threads, u \in Threads :
              (Accepted(t) /\ Accepted(u) /\ t # u) =>
                  Unwrap(threads[t].response).body.rev
                      # Unwrap(threads[u].response).body.rev
        /\ \A t \in Threads :
              Accepted(t) =>
                  LET rev_id == Unwrap(Unwrap(threads[t].response).body.rev)
                  IN /\ rev_id \in 1..Len(Package(p, "pkg").revisions)
                     /\ Package(p, "pkg").revisions[rev_id].entries
                           = RequestedEntries(threads[t].req)
        /\ HasPackage(p, "pkg") =>
              Len(Package(p, "pkg").revisions)
                  = Cardinality({t \in Threads : Appended(t)})

\* C21: the presence check and the creation of a commit are one step for
\* every other request: between them nothing else touches the registry,
\* the creation appends exactly one revision whose entries are stored at
\* that step, no two accepted commits get the same revision number, and
\* the source revisions are as many as the commits that appended one (no
\* other operation here adds a revision).
C21_CommitIsAtomic ==
    /\ []AcceptedAreDistinct
    /\ [][\A p \in ProjectNames, t \in Threads :
             /\ threads[t].pc \in {"held", "create", "pushed"}
                   /\ threads[t].kind = "command" =>
                   \/ threads'[t] # threads[t]
                   \/ projects' = projects
             /\ Creates(t) =>
                   /\ \A path \in DOMAIN threads[t].acc :
                         MockSourceFileKey(path, threads[t].acc[path])
                             \in DOMAIN Package(p, "pkg").files
                   /\ threads[t].acc = RequestedEntries(threads[t].req)
                   /\ Len(Package(p, "pkg")'.revisions)
                         = Len(Package(p, "pkg").revisions) + 1
                   /\ SubSeq(Package(p, "pkg")'.revisions, 1,
                             Len(Package(p, "pkg").revisions))
                         = Package(p, "pkg").revisions
                   /\ Last(Package(p, "pkg")'.revisions).entries
                         = threads[t].acc
             /\ (HasPackage(p, "pkg") /\ \A u \in Threads : ~Creates(u)) =>
                   Package(p, "pkg")'.revisions = Package(p, "pkg").revisions
          ]_vars

\* two commits of different file lists were accepted while an upload ran
\* between them: they hold the revisions 1 and 2
C21_Witness ==
    /\ Accepted("t1") /\ Accepted("t2")
    /\ threads["t1"].req # threads["t2"].req
    /\ Unwrap(threads["t1"].response).body.rev = Some(2)
    /\ Unwrap(threads["t2"].response).body.rev = Some(1)
    /\ threads["t3"].kind = "place" /\ threads["t3"].pc = "done"
    /\ Len(Package("prj", "pkg").revisions) = 2

\* ---------------------------------------------------------------------- C22
\* thread t is inside a read-only handler, holding its read guard
Reading(t) ==
    threads[t].kind \in ReaderKinds /\ threads[t].pc \in {"held", "reading"}

\* thread t is inside a mutating handler, holding its write guard
Mutating(t) ==
    threads[t].kind \in WriterKinds
        /\ threads[t].pc \in {"held", "create", "pushed", "mutate"}

\* a reader runs only while no mutation is in progress, and mutations run
\* one at a time
ReadersSeeNoMutation ==
    \A t \in Threads, u \in Threads :
        /\ Reading(t) => ~Mutating(u)
        /\ (Mutating(t) /\ Mutating(u)) => t = u

\* the (repository, architecture) pairs of answer r that show package n as
\* rebuilt
ShownRebuilt(r, n) ==
    {<<x.repository, x.arch>> : x \in
        {y \in r.body : package_status_xml(n, rebuild_status) \in y.statuses}}

\* C22: a read-only handler and a mutation never overlap: while a reader
\* holds the lock no mutation is in progress and the registry does not
\* change, so the answer a result listing gives is the listing of one
\* registry, with every mutation before it applied in full and no other
\* applied in part.
C22_ReadsSeeWholeMutations ==
    /\ []ReadersSeeNoMutation
    /\ [][\A t \in Threads :
             /\ Reading(t) => projects' = projects
             /\ (Reading(t) /\ threads[t].kind = "results"
                    /\ threads'[t].pc = "done") =>
                   Unwrap(threads'[t].response)
                       = results_response(threads[t].req)
          ]_vars

\* one listing was answered before a rebuild of two repositories and one
\* after it
C22_Witness ==
    /\ threads["t1"].kind = "results" /\ threads["t1"].pc = "done"
    /\ threads["t2"].kind = "build_command" /\ threads["t2"].pc = "done"
    /\ threads["t3"].kind = "results" /\ threads["t3"].pc = "done"
    /\ Unwrap(threads["t1"].response).status = "Ok"
    /\ Unwrap(threads["t2"].response).status = "Ok"
    /\ Unwrap(threads["t3"].response).status = "Ok"
    /\ RepoArches("prj") = {<<"r1", "x86">>, <<"r2", "x86">>}
    /\ ShownRebuilt(Unwrap(threads["t1"].response), "pkg") = {}
    /\ ShownRebuilt(Unwrap(threads["t3"].response), "pkg") = RepoArches("prj")
    /\ Cardinality(Unwrap(threads["t1"].response).body) = 2

\* ---------------------------------------------------------------------- C23
IsPrefix(a, b) == Len(a) <= Len(b) /\ SubSeq(b, 1, Len(a)) = a

\* the step replaces an existing package by a new one: add_new_package or
\* branch on a name the project already has
Replaces(p, k) ==
    /\ HasPackage(p, k)
    /\ \/ resp'.op = "add_new_package" /\ resp'.status = "done"
             /\ resp'.req.project = p /\ resp'.req.package = k
       \/ resp'.op = "branch" /\ resp'.status = "done"
             /\ resp'.req.project = p /\ resp'.req.package = k

\* C23: revisions are append-only and immutable: over every step the
\* source and the metadata revision list of every package are prefixes of
\* what they are after the step.
C23_RevisionsAppendOnly ==
    [][\A p \in ProjectNames, k \in PackageNames :
          HasPackage(p, k) =>
              /\ HasPackage(p, k)'
              /\ IsPrefix(Package(p, k).revisions, Package(p, k)'.revisions)
              /\ IsPrefix(Package(p, k).meta_revisions,
                          Package(p, k)'.meta_revisions)]_vars

\* the same over the steps that do not replace an existing package
C23_AppendOnlyUnlessReplaced ==
    [][\A p \in ProjectNames, k \in PackageNames :
          (HasPackage(p, k) /\ ~Replaces(p, k)) =>
              /\ HasPackage(p, k)'
              /\ IsPrefix(Package(p, k).revisions, Package(p, k)'.revisions)
              /\ IsPrefix(Package(p, k).meta_revisions,
                          Package(p, k)'.meta_revisions)]_vars

\* ---------------------------------------------------------------------- C24
\* every stored key of a is stored in b with the same bytes
StoreKept(a, b) ==
    \A key \in DOMAIN a : key \in DOMAIN b /\ b[key] = a[key]

\* C24: content store entries are never removed: over every step each key
\* of every package's store stays, with the same bytes.
C24_StoreNeverShrinks ==
    [][\A p \in ProjectNames, k \in PackageNames :
          HasPackage(p, k) =>
              /\ HasPackage(p, k)'
              /\ StoreKept(Package(p, k).files, Package(p, k)'.files)]_vars

\* the same over the steps that do not replace an existing package
C24_StoreKeptUnlessReplaced ==
    [][\A p \in ProjectNames, k \in PackageNames :
          (HasPackage(p, k) /\ ~Replaces(p, k)) =>
              /\ HasPackage(p, k)'
              /\ StoreKept(Package(p, k).files, Package(p, k)'.files)]_vars

\* ---------------------------------------------------------------------- C25
\* r is the answer of a mutating handler that rejects its request
Rejected(r) ==
    /\ r.op \in {"place", "command", "build_command"}
    /\ r.status \in {"BadRequest", "NotFound", "MisdirectedRequest"}

\* C25: a commit, a placement or a rebuild that is rejected (missing or
\* unknown cmd, unknown or unsupported parameter, missing rev=repository,
\* unparsable body, unknown project or package) leaves the whole registry
\* unchanged.
C25_RejectedRequestsChangeNothing ==
    [][Rejected(resp') => projects' = projects]_vars

\* an upload without rev=repository to a package that exists is rejected
C25_Witness ==
    /\ resp.op = "place" /\ resp.status = "MisdirectedRequest"
    /\ HasPackage("prj", "pkg")
    /\ resp.req.package = "pkg" /\ resp.req.file = "a"
    /\ "rev" \notin DOMAIN resp.req.query

\* a commit whose body does not parse is rejected
C25_WitnessBody ==
    /\ resp.op = "command" /\ resp.status = "BadRequest" /\ resp.code = "400"
    /\ resp.req.body = None /\ HasPackage("prj", "pkg")

\* a rebuild with an unsupported parameter is rejected while there is
\* something to rebuild
C25_WitnessRebuild ==
    /\ resp.op = "build_command" /\ resp.status = "MisdirectedRequest"
    /\ HasPackage("prj", "pkg") /\ HasArch("prj", "r1", "x86")

\* ---------------------------------------------------------------------- C26
SourceOps == {"list", "file", "place", "command"}
BuildOps == {"repos", "arches", "results", "log", "build_command"}

\* r answers an authorized request that carries the parameter "bogus",
\* which no operation defines, for a project, package and repository that
\* exist
CarriesBogus(r) ==
    /\ r.op \in SourceOps \cup BuildOps
    /\ r.status # "Unauthorized"
    /\ IF r.op \in SourceOps THEN "bogus" \in DOMAIN r.req.query
       ELSE \E i \in 1..Len(r.req.pairs) : r.req.pairs[i].key = "bogus"
    /\ HasPackage("prj", "pkg") /\ HasArch("prj", "r1", "x86")

\* C26: on every operation a request with a parameter the operation does
\* not define is rejected with BadRequest.
C26_UnknownParameterRejected ==
    CarriesBogus(resp) => resp.status = "BadRequest"

\* the same for the handlers that walk the whole query string: result
\* listing, log fetch and rebuild
C26_QueryWalkersReject ==
    (CarriesBogus(resp) /\ resp.op \in {"results", "log", "build_command"})
        => (resp.status = "BadRequest" /\ resp.code = "400")

\* the handlers that only look up the parameters they know answer as if
\* the unknown parameter were not there
C26_SourceHandlersIgnore ==
    (CarriesBogus(resp) /\ resp.op \in {"list", "repos", "arches"})
        => resp.status = "Ok"

\* ---------------------------------------------------------------------- C27
\* in the current registry every handler answers every request with
\* mismatching credentials with the same Unauthorized value, and the
\* mutating handlers leave the registry as it is
UnauthenticatedGetNothing ==
    /\ \A r \in Unauthenticated(ValidatedPlacements), s \in Srcmd5s :
          /\ placement_response(r, s) = Unauthorized("place")
          /\ placement_effect(r, s) = projects
    /\ \A r \in Unauthenticated(ValidatedCommands), s \in Srcmd5s :
          /\ command_response(r, s) = Unauthorized("command")
          /\ command_effect(r, s) = projects
    /\ \A r \in Unauthenticated(ValidatedBuildCommands) :
          /\ build_command_response(r) = Unauthorized("build_command")
          /\ build_command_effect(r) = projects
    /\ \A r \in Unauthenticated(ValidatedReads("listing")) :
          listing_response(r) = Unauthorized("list")
    /\ \A r \in Unauthenticated(ValidatedReads("file")) :
          file_response(r) = Unauthorized("file")
    /\ \A r \in Unauthenticated(ValidatedReads("build")) :
          /\ repo_listing_response(r, << >>) = Unauthorized("repos")
          /\ arch_listing_response(r, << >>) = Unauthorized("arches")
          /\ results_response(r) = Unauthorized("results")
          /\ log_response(r) = Unauthorized("log")

\* C27: a request with mismatching credentials is answered Unauthorized,
\* as a value, by every handler in every registry; the answer carries
\* nothing of the registry or of the request, and the registry is left
\* unchanged and unpoisoned.
C27_UnauthorizedBeforeAnything ==
    /\ [](~poisoned => UnauthenticatedGetNothing)
    /\ [][resp'.status = "Unauthorized" =>
             /\ resp' = Unauthorized(resp'.op)
             /\ resp'.body = None /\ resp'.req = None
             /\ projects' = projects /\ poisoned' = poisoned]_vars

\* a commit was refused while the package holds a stored file that the
\* configured credentials could commit
C27_Witness ==
    /\ resp = Unauthorized("command")
    /\ HasPackage("prj", "pkg")
    /\ MockSourceFileKey("a", Md5(<<"x">>)) \in DOMAIN Package("prj", "pkg").files
    /\ Len(Package("prj", "pkg").revisions) = 0
    /\ HasArch("prj", "r1", "x86")

\* ---------------------------------------------------------------------- C28
\* every source revision of the package has the LinkInfo of the first, and
\* that is at most one record
UniformLinkInfo(package) ==
    \A i \in 1..Len(package.revisions) :
        /\ package.revisions[i].linkinfo = package.revisions[1].linkinfo
        /\ Len(package.revisions[i].linkinfo) <= 1

\* C28: a source revision appended to a package (by add_package_revision
\* or a commit) has the linkinfo of its predecessor, or none when it is the
\* first; so all source revisions of a package have the same linkinfo: the
\* one record of the branch in a branched package, none in another.
C28_LinkInfoCarriedForward ==
    /\ [](\A p \in ProjectNames, k \in PackageNames :
             HasPackage(p, k) => UniformLinkInfo(Package(p, k)))
    /\ [][\A p \in ProjectNames, k \in PackageNames :
             (/\ HasPackage(p, k) /\ ~Replaces(p, k)
              /\ Len(Package(p, k)'.revisions)
                    = Len(Package(p, k).revisions) + 1) =>
                 Last(Package(p, k)'.revisions).linkinfo
                     = IF Len(Package(p, k).revisions) = 0 THEN << >>
                       ELSE Last(Package(p, k).revisions).linkinfo]_vars

\* a commit to the branched package carried the branch's LinkInfo to the
\* second revision, next to an origin without LinkInfo
C28_Witness ==
    /\ resp.op = "command" /\ resp.status = "Ok" /\ resp.code = "directory"
    /\ resp.req.package = "brn"
    /\ Len(Package("prj", "brn").revisions) = 2
    /\ Len(Package("prj", "brn").revisions[2].linkinfo) = 1
    /\ Package("prj", "brn").revisions[2].linkinfo[1].package = "pkg"
    /\ Len(Package("prj", "pkg").revisions) >= 1
    /\ Package("prj", "pkg").revisions[1].linkinfo = << >>

\* ---------------------------------------------------------------------- C29
\* the step is a branch of an origin that has a revision to a destination
\* (p, d) that exists already
BranchOntoExisting(p, d) ==
    /\ HasPackage(p, d)
    /\ resp'.op = "branch" /\ resp'.status # "panic"
    /\ resp'.req.project = p /\ resp'.req.package = d

\* C29: a branch onto a destination that exists fails with Conflict and
\* leaves the destination package as it was.
C29_BranchOntoExistingConflicts ==
    [][\A p \in ProjectNames, d \in PackageNames :
          BranchOntoExisting(p, d) =>
              /\ resp'.status = "Conflict"
              /\ Package(p, d)' = Package(p, d)]_vars

\* what branch does instead: it succeeds and the destination is the newly
\* branched package, with one source and one metadata revision
C29_BranchOverwrites ==
    [][\A p \in ProjectNames, d \in PackageNames :
          BranchOntoExisting(p, d) =>
              /\ resp'.status = "done"
              /\ Len(Package(p, d)'.revisions) = 1
              /\ Package(p, d)'.revisions[1].srcmd5 = resp'.req.srcmd5
              /\ Len(Package(p, d)'.meta_revisions) = 1]_vars

\* ---------------------------------------------------------------------- C30
\* C30: an upsert of an existing (repository, architecture) changes only
\* the code of that entry: its package statuses and logs, every other
\* entry and the packages of the project stay as they are; an upsert of an
\* absent one creates the entry with the code and an empty package map.
C30_UpsertChangesOnlyTheCode ==
    [][\A p \in ProjectNames, repo \in RepoNames, arch \in Arches :
          (HasProject(p) /\ IsUpsert(resp', p, repo, arch)) =>
              /\ HasArch(p, repo, arch)'
              /\ Repository(p, repo, arch)' =
                    IF HasArch(p, repo, arch)
                    THEN [Repository(p, repo, arch)
                             EXCEPT !.code = resp'.req.code]
                    ELSE MockRepository(resp'.req.code, EmptyMap)
              /\ RepoArches(p)' = RepoArches(p) \cup {<<repo, arch>>}
              /\ \A other \in RepoArches(p) \ {<<repo, arch>>} :
                    Repository(p, other[1], other[2])'
                        = Repository(p, other[1], other[2])
              /\ projects[p].packages' = projects[p].packages]_vars

\* the code of an entry that holds a package status and a log was updated
C30_Witness ==
    /\ IsUpsert(resp, "prj", "r1", "x86") /\ resp.req.code = "published"
    /\ HasArch("prj", "r1", "x86") /\ HasArch("prj", "r2", "arm")
    /\ Repository("prj", "r1", "x86").code = "published"
    /\ DOMAIN Repository("prj", "r1", "x86").packages = {"pkg"}
    /\ IsSome(Repository("prj", "r1", "x86").packages["pkg"].latest_log)
    /\ DOMAIN Repository("prj", "r2", "arm").packages = {"pkg"}


\* ---------------------------------------------------------------- C31
\* the entry of a package in a (repository, architecture), the default one
\* when it has none yet
EntryOf(p, r, a, k) ==
    IF HasArch(p, r, a) /\ k \in DOMAIN Repository(p, r, a).packages
    THEN Repository(p, r, a).packages[k] ELSE DefaultRepositoryPackage

\* this step is the call add_completed_build_log(p, r, a, k, log, success)
IsSetLog(p, r, a, k, log, success) ==
    /\ resp'.op = "add_completed_build_log" /\ resp'.status = "done"
    /\ HasArch(p, r, a)
    /\ add_completed_build_log(p, r, a, k, log, success)

\* a set_log call makes its log the latest one, makes it the latest
\* successful one exactly when it is successful, and leaves the status
SetLogRecords ==
    \A p \in ProjectNames, r \in RepoNames, a \in Arches, k \in PackageNames,
       log \in SetLogs, success \in BOOLEAN :
        IsSetLog(p, r, a, k, log, success) =>
            /\ EntryOf(p, r, a, k)'.latest_log = Some(log)
            /\ EntryOf(p, r, a, k)'.latest_successful_log =
                   IF success THEN Some(log)
                   ELSE EntryOf(p, r, a, k).latest_successful_log
            /\ EntryOf(p, r, a, k)'.status = EntryOf(p, r, a, k).status

\* no other step touches the logs of a package
OnlySetLogChangesLogs ==
    \A p \in ProjectNames, r \in RepoNames, a \in Arches, k \in PackageNames :
        (~\E log \in SetLogs, success \in BOOLEAN :
              IsSetLog(p, r, a, k, log, success)) =>
            /\ EntryOf(p, r, a, k)'.latest_log = EntryOf(p, r, a, k).latest_log
            /\ EntryOf(p, r, a, k)'.latest_successful_log =
                   EntryOf(p, r, a, k).latest_successful_log

\* the log a whole read of the package answers from: the bytes up to the
\* chunk size of the log, nothing when there is no log
ReadOf(log) ==
    IF IsSome(log)
    THEN SubSeq(Unwrap(log).contents, 1,
                IF IsSome(Unwrap(log).chunk_size)
                THEN Min(Unwrap(Unwrap(log).chunk_size),
                         Len(Unwrap(log).contents))
                ELSE Len(Unwrap(log).contents))
    ELSE << >>

\* a read with lastsucceeded=1 answers from the latest successful log, any
\* other read from the latest log
ReadsSelectLog ==
    (resp.op = "log" /\ resp.status = "Ok") =>
        LET entry == EntryOf(resp.req.project, resp.req.repo, resp.req.arch,
                             resp.req.package)
            log == IF \E i \in 1..Len(resp.req.pairs) :
                          resp.req.pairs[i] = Pair("lastsucceeded", "1")
                   THEN entry.latest_successful_log ELSE entry.latest_log
        IN IF resp.code = "directory"
           THEN resp.body = IF IsSome(log)
                            THEN {[name |-> "_log",
                                   size |-> Len(Unwrap(log).contents)]}
                            ELSE {}
           ELSE resp.body = ReadOf(log)

\* C31: after any sequence of set_log calls on a (repo, arch, package), the
\* latest log is the log of the last call and the latest successful log is
\* the log of the last successful call (none when there was none: an entry
\* starts without logs and only set_log changes them); a read with
\* lastsucceeded=1 reads the latest successful log and any other read the
\* latest log; set_log never changes the package's status.
C31_SetLog ==
    /\ []ReadsSelectLog
    /\ [][SetLogRecords /\ OnlySetLogChangesLogs]_vars

\* a read with lastsucceeded=1 answered the successful log while a later,
\* failed log is the latest one and the status is one that was set
C31_Witness ==
    /\ resp.op = "log" /\ resp.status = "Ok" /\ resp.code = "log"
    /\ resp.req.pairs = <<Pair("lastsucceeded", "1")>>
    /\ resp.body = <<"z">>
    /\ EntryOf("prj", "r1", "x86", resp.req.package).latest_log =
           Some(MockBuildLog(LogText, Some(2)))
    /\ EntryOf("prj", "r1", "x86", resp.req.package).status
           = MockBuildStatus("broken", TRUE)

\* a read without lastsucceeded answered the failed log, cut at its chunk
C31_WitnessLatest ==
    /\ resp.op = "log" /\ resp.status = "Ok" /\ resp.code = "log"
    /\ resp.req.pairs = << >>
    /\ resp.body = SubSeq(LogText, 1, 2)
    /\ EntryOf("prj", "r1", "x86", resp.req.package).latest_successful_log =
           Some(MockBuildLog(<<"z">>, None))

\* ---------------------------------------------------------------- C32
\* the packages a rebuild targets: the named ones, or every package of the
\* project when no name is given
RebuildTargets(r, project) ==
    IF RebuildNames(r) = {} THEN DOMAIN project.packages ELSE RebuildNames(r)

\* what a successful rebuild makes of one (repository, architecture)
RebuiltFrom(before, after, targets) ==
    /\ after.code = before.code
    /\ DOMAIN after.packages = DOMAIN before.packages \cup targets
    /\ \A n \in targets :
          /\ after.packages[n].status = rebuild_status
          /\ after.packages[n].latest_log =
                 repo_package_or_default(before, n).latest_log
          /\ after.packages[n].latest_successful_log =
                 repo_package_or_default(before, n).latest_successful_log
    /\ \A n \in DOMAIN before.packages \ targets :
          after.packages[n] = before.packages[n]

\* C32: after a successful rebuild, in every (repo, arch) of the project the
\* status of every targeted package (the named packages, or every package of
\* the project when no name is given) is the configured rebuild status, an
\* entry being created where absent; the status of every other package and
\* every build log are unchanged.
C32_RebuildSetsTargets ==
    [][\A p \in ProjectNames :
        (/\ IsRebuildOn(resp', projects) /\ resp'.req.project = p
         /\ resp'.status = "Ok")
        => /\ projects'[p].packages = projects[p].packages
           /\ RepoArches(p)' = RepoArches(p)
           /\ \A ra \in RepoArches(p) :
                 RebuiltFrom(Repository(p, ra[1], ra[2]),
                             Repository(p, ra[1], ra[2])',
                             RebuildTargets(resp', projects[p]))]_vars

\* a rebuild of pkg alone: r2 has an entry for pkg that never had a status
\* or a log set, r1 kept the log of pkg and the failed status of brn
C32_Witness ==
    /\ IsRebuildOn(resp, projects) /\ resp.status = "Ok"
    /\ pair_values(resp.req.pairs, "package") = <<"pkg">>
    /\ HasArch("prj", "r1", "x86") /\ HasArch("prj", "r2", "x86")
    /\ DOMAIN Repository("prj", "r2", "x86").packages = {"pkg"}
    /\ Repository("prj", "r2", "x86").packages["pkg"].status = rebuild_status
    /\ DOMAIN Repository("prj", "r1", "x86").packages = {"pkg", "brn"}
    /\ Repository("prj", "r1", "x86").packages["pkg"].status = rebuild_status
    /\ Repository("prj", "r1", "x86").packages["pkg"].latest_log # None
    /\ Repository("prj", "r1", "x86").packages["brn"].status.code = "failed"

\* a rebuild without names reached both packages of the project
C32_WitnessAll ==
    /\ IsRebuildOn(resp, projects) /\ resp.status = "Ok"
    /\ pair_values(resp.req.pairs, "package") = << >>
    /\ DOMAIN projects["prj"].packages = {"pkg", "brn"}
    /\ HasArch("prj", "r2", "x86")
    /\ DOMAIN Repository("prj", "r2", "x86").packages = {"pkg", "brn"}
    /\ \A n \in {"pkg", "brn"} :
          Repository("prj", "r2", "x86").packages[n].status = rebuild_status

\* ---------------------------------------------------------------- C33
\* this step is a poll of the monitor that received a result list
IsPoll == monitor' # monitor /\ resp'.op = "result" /\ resp'.body # None
PolledResults == Unwrap(resp'.body)

\* the stored observations of a (repo, arch) pair
Stored(m, repository, arch) ==
    {i \in 1..Len(m.last) :
        m.last[i].repository = repository /\ m.last[i].arch = arch}
SamePair(r, q) == r.repository = q.repository /\ r.arch = q.arch

\* C33: the monitor's observed code for a (repo, arch) result is Unknown
\* whenever the result is marked dirty, whatever the package's raw status
\* code, and the raw status code otherwise: it is what the monitor stores
\* for a pair it sees for the first time.
C33_DirtyIsUnknown ==
    [][IsPoll =>
        \A i \in 1..Len(PolledResults) :
            LET r == PolledResults[i]
            IN (/\ Stored(monitor, r.repository, r.arch) = {}
                /\ \A j \in 1..Len(PolledResults) :
                      SamePair(PolledResults[j], r) => j = i)
               => \E k \in 1..Len(monitor'.last) :
                     monitor'.last[k] =
                         MonitorData(r.repository, r.arch,
                             IF r.dirty THEN "unknown" ELSE r.code)]_vars

\* a dirty result with a final raw code and a clean one, both seen for the
\* first time: the first is stored as unknown, the second with its code
C33_Witness ==
    /\ resp.op = "result" /\ monitor.polls = 1
    /\ resp.body = Some(<<ResultListResult("r1", "x86", TRUE, "succeeded"),
                          ResultListResult("r2", "x86", FALSE, "succeeded")>>)
    /\ monitor.last = <<MonitorData("r1", "x86", "unknown"),
                        MonitorData("r2", "x86", "succeeded")>>

\* ---------------------------------------------------------------- C34
\* the codes a poll observed for the pair of a stored observation
ObservedFor(old) ==
    {IF PolledResults[j].dirty THEN "unknown" ELSE PolledResults[j].code :
        j \in {j \in 1..Len(PolledResults) : SamePair(PolledResults[j], old)}}

OneObservationPerPair ==
    \A i, j \in 1..Len(monitor.last) :
        SamePair(monitor.last[i], monitor.last[j]) => i = j

StoredChangesOnlyWhenObserved ==
    /\ monitor'.last # monitor.last => IsPoll
    /\ IsPoll =>
          /\ Len(monitor'.last) >= Len(monitor.last)
          /\ \A i \in 1..Len(monitor.last) :
                LET old == monitor.last[i]
                    new == monitor'.last[i]
                IN /\ SamePair(new, old)
                   /\ new.code # old.code =>
                         new.code \in ObservedFor(old) \ {"unknown"}
                   /\ ObservedFor(old) \subseteq {"unknown", old.code} =>
                         new = old

\* C34: once a (repo, arch) pair has a stored observation, the stored code
\* changes only on a poll whose observed code for that pair is not Unknown
\* and differs from the stored code; an Unknown (or dirty) observation never
\* replaces a stored code, each pair has at most one stored observation, and
\* a pair absent from a response keeps its stored observation.
C34_UnknownNeverOverwrites ==
    /\ []OneObservationPerPair
    /\ [][StoredChangesOnlyWhenObserved]_vars

\* the second poll found r1 dirty and did not mention r2: both keep the
\* codes of the first poll
C34_Witness ==
    /\ resp.op = "result" /\ monitor.polls = 2
    /\ resp.body = Some(<<ResultListResult("r1", "x86", TRUE, "succeeded")>>)
    /\ monitor.last = <<MonitorData("r1", "x86", "building"),
                        MonitorData("r2", "x86", "succeeded")>>

\* the second poll changed the stored code of r1
C34_WitnessChanged ==
    /\ resp.op = "result" /\ monitor.polls = 2
    /\ resp.body = Some(<<ResultListResult("r1", "x86", FALSE, "succeeded")>>)
    /\ monitor.last = <<MonitorData("r1", "x86", "succeeded"),
                        MonitorData("r2", "x86", "building")>>

\* ---------------------------------------------------------------- C35
\* this step is a poll whose response reports every pair tracked so far,
\* and nothing but clean results with a final code
GoodPoll ==
    /\ resp'.op = "result" /\ resp'.body # None
    /\ \A j \in 1..Len(PolledResults) :
          ~PolledResults[j].dirty /\ PolledResults[j].code \in FinalCodes
    /\ \A i \in 1..Len(monitor.last) :
          \E j \in 1..Len(PolledResults) :
              SamePair(PolledResults[j], monitor.last[i])

\* the loop was left through its break
LoopExited == monitor.phase = "done"

\* C35: the monitor loop exits after a poll if and only if every tracked
\* pair's stored code is final at that point; so it has never exited while
\* some stored code is non-final, and if from some poll onward every
\* response reports every tracked pair clean with a final code, a monitor
\* whose polls do not fail eventually exits.
C35_ExitsIffAllFinal ==
    /\ [][IsPoll => (LoopExited' <=> AllStoredFinal(monitor'))]_vars
    /\ [](LoopExited => AllStoredFinal(monitor))
    /\ [](monitor.phase = "polling" => ~AllStoredFinal(monitor))
    /\ (<>[][GoodPoll]_vars /\ [](monitor.phase # "failed")) => <>LoopExited

\* the loop exited at its third poll, which reported both tracked pairs
\* clean and final after they had been non-final
C35_Witness ==
    /\ LoopExited /\ monitor.polls = 3
    /\ resp.body = Some(<<ResultListResult("r1", "x86", FALSE, "succeeded"),
                          ResultListResult("r2", "x86", FALSE, "succeeded")>>)
    /\ monitor.last = <<MonitorData("r2", "x86", "succeeded"),
                        MonitorData("r1", "x86", "succeeded")>>

\* the loop goes on after a poll that left one stored code non-final
C35_WitnessGoesOn ==
    /\ monitor.phase = "polling" /\ monitor.polls = 2
    /\ resp.body = Some(<<ResultListResult("r1", "x86", FALSE, "succeeded")>>)
    /\ monitor.last = <<MonitorData("r2", "x86", "building"),
                        MonitorData("r1", "x86", "succeeded")>>

\* ---------------------------------------------------------------- C36
\* the package has a metadata revision, and the _meta entry of the latest
\* one is in its content store
HasStoredMetadata(package) ==
    /\ Len(package.meta_revisions) >= 1
    /\ LET rev == package.meta_revisions[Len(package.meta_revisions)]
       IN /\ META_PATH \in DOMAIN rev.entries
          /\ MockSourceFileKey(META_PATH, rev.entries[META_PATH])
                 \in DOMAIN package.files

EveryPackageHasMetadata ==
    \A p \in DOMAIN projects :
        \A k \in DOMAIN projects[p].packages :
            HasStoredMetadata(projects[p].packages[k])

\* this step is an authorized _meta placement on a package that exists
MetaPlacementOnExisting ==
    /\ resp'.op = "place" /\ resp'.req # None
    /\ resp'.req.file = META_PATH
    /\ HasPackage(resp'.req.project, resp'.req.package)

\* C36: in every reachable state every package (created by add_new_package,
\* by the first _meta placement, or by branch) has at least one metadata
\* revision, and the _meta entry of its latest metadata revision is present
\* in the package's content store; a _meta placement on a package that
\* exists already adds no metadata revision and changes nothing of it.
C36_PackagesKeepMetadata ==
    /\ []EveryPackageHasMetadata
    /\ [][MetaPlacementOnExisting =>
             resp'.status = "Ok" /\ projects' = projects]_vars

\* a _meta placement was accepted on a branched package, which still has
\* the one metadata revision the branch gave it
C36_Witness ==
    /\ resp.op = "place" /\ resp.status = "Ok"
    /\ resp.req.file = META_PATH /\ resp.req.package = "brn"
    /\ HasPackage("prj", "brn") /\ HasPackage("prj", "pkg")
    /\ Len(Package("prj", "brn").revisions) >= 1
    /\ Len(Package("prj", "brn").meta_revisions) = 1

\* a _meta placement created a package
C36_WitnessCreated ==
    /\ resp.op = "place" /\ resp.status = "Ok"
    /\ resp.req.file = META_PATH /\ resp.req.package = "brn"
    /\ HasPackage("prj", "brn")
    /\ Package("prj", "brn").revisions = << >>
    /\ HasStoredMetadata(Package("prj", "brn"))

\* ---------------------------------------------------------------- C37
\* C37 as stated: a place-file request (here: one with good credentials, on
\* a package that exists) is always accepted and always stores the uploaded
\* body under the key (request path, md5 of the body).
C37_AsStated ==
    (/\ resp.op = "place" /\ resp.req # None
     /\ HasPackage(resp.req.project, resp.req.package))
    => /\ resp.status = "Ok"
       /\ MockSourceFileKey(resp.req.file, Md5(resp.req.body))
              \in DOMAIN Package(resp.req.project, resp.req.package).files

\* this step is an authorized upload with rev=repository, under a path other
\* than _meta, to a package that exists
IsFileUpload ==
    /\ resp'.op = "place" /\ resp'.req # None
    /\ resp'.req.file # META_PATH
    /\ resp'.req.query = OptParam("rev", Some("repository"))
    /\ HasPackage(resp'.req.project, resp'.req.package)

UploadStores ==
    IsFileUpload =>
        LET q == resp'.req
            key == MockSourceFileKey(q.file, Md5(q.body))
            before == Package(q.project, q.package)
            after == projects'[q.project].packages[q.package]
        IN /\ resp'.status = "Ok" /\ resp'.code = "revision"
           /\ DOMAIN after.files = DOMAIN before.files \cup {key}
           /\ after.files[key] = q.body
           /\ \A k \in DOMAIN before.files \ {key} :
                 after.files[k] = before.files[k]
           /\ after.revisions = before.revisions
           /\ after.meta_revisions = before.meta_revisions

\* an answered commit reports missing exactly the entries whose (name, md5)
\* is not a key of the store, and creates its revision when there is none
CommitFindsByPathAndDigest ==
    (resp.op = "command" /\ resp.req # None /\ resp.status = "Ok") =>
        LET package == Package(resp.req.project, resp.req.package)
            absent == SelectSeq(Unwrap(resp.req.body),
                          LAMBDA e : MockSourceFileKey(e.name, e.md5)
                                         \notin DOMAIN package.files)
        IN IF Len(absent) = 0 THEN resp.code = "directory"
           ELSE resp.code = "missing" /\ resp.body.entries = absent

\* C37 amended: an authorized upload with rev=repository, under a path other
\* than _meta, to a package that exists is accepted and stores the body
\* under the key (request path, md5 of the body), leaving the rest of the
\* package as it was; a commit finds an entry exactly when its (name, md5)
\* is a key of the store, so bytes uploaded only under path A are reported
\* missing by a commit that references them under path B.
C37_UploadStoresUnderPathAndDigest ==
    /\ [][UploadStores]_vars
    /\ []CommitFindsByPathAndDigest

\* body x was uploaded under a and is the whole store besides _meta
C37_Witness ==
    /\ resp.op = "place" /\ resp.status = "Ok" /\ resp.code = "revision"
    /\ resp.req.file = "a" /\ resp.req.body = <<"x">>
    /\ DOMAIN Package("prj", "pkg").files =
           {MockSourceFileKey("a", Md5(<<"x">>)),
            into_key_and_contents(new_metadata("prj", "pkg")).key}

\* the bytes are stored under a only: the commit that references them under
\* b is told they are missing, the one under a is not
C37_WitnessOtherPath ==
    /\ resp.op = "command" /\ resp.status = "Ok" /\ resp.code = "missing"
    /\ Unwrap(resp.req.body) = <<[name |-> "a", md5 |-> Md5(<<"x">>)],
                                 [name |-> "b", md5 |-> Md5(<<"x">>)]>>
    /\ resp.body.entries = <<[name |-> "b", md5 |-> Md5(<<"x">>)]>>
    /\ MockSourceFileKey("a", Md5(<<"x">>))
           \in DOMAIN Package("prj", "pkg").files

\* a commit found the uploaded pair and recorded it
C37_WitnessCommitted ==
    /\ resp.op = "command" /\ resp.status = "Ok" /\ resp.code = "directory"
    /\ Unwrap(resp.req.body) = <<[name |-> "a", md5 |-> Md5(<<"x">>)]>>
    /\ Len(Package("prj", "pkg").revisions) = 1
    /\ Package("prj", "pkg").revisions[1].entries =
           Put(EmptyMap, "a", Md5(<<"x">>))

\* ---------------------------------------------------------------- C38
\* r is a metadata listing of a package that exists, past the checks of its
\* meta and rev parameters
IsMetaListing(r) ==
    /\ r.op = "list" /\ r.req # None
    /\ HasPackage(r.req.project, r.req.package)
    /\ list_meta_of(r.req) = Some(TRUE)
    /\ r.status # "BadRequest"

\* the revision number the handler resolves: the rev parameter, or the
\* number of source revisions when there is none
ResolvedRev(r) ==
    LET rev_arg == find_query_param(r.req, "rev")
    IN IF IsSome(rev_arg) THEN Unwrap(parse_usize(Unwrap(rev_arg)))
       ELSE Len(Package(r.req.project, r.req.package).revisions)

\* C38: in the source listing handler the assertion that the zero-revision
\* branch is never taken for a metadata listing holds for every reachable
\* package state and every query: no metadata listing resolves to
\* revision 0, also for a package with zero source revisions.
C38_MetaListingNeverZero ==
    IsMetaListing(resp) => ResolvedRev(resp) # 0

\* ---------------------------------------------------------------- C39
\* the effective end the handler computes for a read
EffectiveEnd(r) ==
    log_end(ContentsOf(LogOf(r)), ChunkOf(LogOf(r)), StartOf(r), EndOf(r))

\* C39: for every log of length L and every content read with start <= L,
\* the effective end computed by the log handler is at least start, so the
\* read answers a (possibly empty) slice instead of failing, also when the
\* requested end is smaller than start.
C39_EffectiveEndNotBeforeStart ==
    (IsLogRead(resp) /\ StartOf(resp) <= Len(ContentsOf(LogOf(resp)))) =>
        /\ EffectiveEnd(resp) >= StartOf(resp)
        /\ resp.status = "Ok"

\* ---------------------------------------------------------------- C40
\* this step is the first poll of the monitor, and its response holds no
\* (repo, arch) result
FirstPollIsEmpty ==
    /\ monitor.phase = "idle" /\ monitor.polls = 0
    /\ IsPoll /\ PolledResults = << >>

\* C40: when the first poll response contains no (repo, arch) result, the
\* monitor tracks no pair, stops after that single poll without sleeping,
\* and reports the 'excluded' failure outcome.
C40_EmptyFirstPollIsExcluded ==
    [][FirstPollIsEmpty =>
          monitor' = [phase |-> "done", last |-> << >>, polls |-> 1,
                      outcome |-> Some("excluded")]]_vars

C40_Witness ==
    /\ resp.op = "result" /\ resp.body = Some(<< >>)
    /\ monitor.phase = "done" /\ monitor.polls = 1
    /\ monitor.last = << >>
    /\ monitor.outcome = Some("excluded")
=============================================================================
